---------------------------- MODULE Spec2Model ----------------------------
(***************************************************************************)
(* A model of polo: the Memory Store (src/src/polo/memory.py), the REPL    *)
(* loop (src/src/polo/repl.py) and the chat path of the agent              *)
(* (src/src/polo/ai_agent.py).                                             *)
(*                                                                         *)
(* Text is a sequence of one-character strings, so that strip, split,      *)
(* lower, substring search and string ordering are computed, not assumed.  *)
(* A Python dict is a function from its keys; a JSON value whose type the  *)
(* code never checks carries a tag "ty".                                   *)
(***************************************************************************)
EXTENDS Integers, Sequences, FiniteSets, TLC

VARIABLES
    memory_file,    \* Memory.memory_file, the path the store is bound to
    data,           \* Memory.data, the in-memory document (a dict)
    disk,           \* the file system: path -> content of the file
    call,           \* the last Memory Store operation and its arguments
    ret,            \* what that operation returned
    ops,            \* number of Memory Store operations called so far
    faults,         \* number of I/O failures the environment has produced so far
    pc,             \* PoloREPL.run: "start", "running", "stopped", "crashed"
    running,        \* PoloREPL.running
    command_count,  \* PoloREPL.command_count
    use_memory,     \* PoloREPL.use_memory (self.memory is not None)
    llm_client,     \* AIAgent.llm_client: "ok", or "unset" after a failed construction
    tool_history,   \* Tools.tool_history
    fs,             \* the files and directories the tools work on: path -> node
    tool_calls,     \* history variable: the tool calls since the last clear
    reads,          \* number of input() calls so far
    event,          \* what the last REPL iteration read and did
    printed         \* the last message the REPL printed

memVars  == <<memory_file, data, disk, call, ret, ops, faults>>
replVars == <<pc, running, command_count, use_memory, llm_client, tool_history,
              fs, tool_calls, reads, event, printed>>
vars     == <<memory_file, data, disk, call, ret, ops, faults, pc, running, command_count,
              use_memory, llm_client, tool_history, fs, tool_calls,
         reads, event, printed>>

-----------------------------------------------------------------------------
(* Bounds of the model *)

\* Memory Store operations in one behaviour of Spec
MaxOps == 3
\* Memory Store operations in one behaviour of SpecTrip
MaxTripOps == 5
\* I/O failures in one behaviour
MaxFaults == 1
\* add_conversation calls in one behaviour of SpecCap (above the retention cap)
MaxCapCalls == 1003
\* input lines (and interrupts) in one behaviour of SpecRepl
MaxLines == 3
MaxHistoryCalls == 103
MaxToolOps == 2
MaxReadOps == 2
MaxCliRuns == 2
MaxRetainOps == 2

\* The records the model's sort inserts in one run of its inner loop
SortBlock == 32

(* Program constants *)

\* max_conversations, memory.py:87
MaxConversations == 1000
\* the length tool_history is cut to, tools.py:374
MaxToolHistory == 100
\* the characters read_file returns without max_lines, tools.py:88
ReadLimit == 5000

-----------------------------------------------------------------------------
(* Text *)

Min(a, b) == IF a < b THEN a ELSE b
Max(a, b) == IF a > b THEN a ELSE b

Digit == <<"0", "1", "2", "3", "4", "5", "6", "7", "8", "9">>

\* Code points of the characters timestamps are made of: str comparison in
\* Python is by code point.
Ord(c) ==
    CASE c = "." -> 46
      [] c = "0" -> 48 [] c = "1" -> 49 [] c = "2" -> 50 [] c = "3" -> 51
      [] c = "4" -> 52 [] c = "5" -> 53 [] c = "6" -> 54 [] c = "7" -> 55
      [] c = "8" -> 56 [] c = "9" -> 57
      [] c = "a" -> 97 [] c = "b" -> 98 [] c = "c" -> 99 [] c = "d" -> 100
      [] c = "e" -> 101 [] c = "f" -> 102 [] c = "g" -> 103 [] c = "h" -> 104
      [] c = "t" -> 116 [] c = "x" -> 120
      [] OTHER -> 0

\* s < t for Python str: the first differing character decides, a proper
\* prefix is smaller.
StrLess(s, t) ==
    \E i \in 1..(Min(Len(s), Len(t)) + 1) :
        /\ \A j \in 1..(i - 1) : s[j] = t[j]
        /\ IF i > Len(s) THEN i <= Len(t)
           ELSE IF i > Len(t) THEN FALSE
           ELSE Ord(s[i]) < Ord(t[i])

StrLeq(s, t) == ~StrLess(t, s)

\* str.lower() on the letters of the model's alphabet
LowerChar(c) ==
    CASE c = "A" -> "a" [] c = "B" -> "b" [] c = "E" -> "e" [] c = "X" -> "x"
      [] c = "Q" -> "q" [] c = "U" -> "u" [] c = "I" -> "i" [] c = "T" -> "t"
      [] c = "S" -> "s" [] c = "H" -> "h" [] c = "M" -> "m" [] c = "V" -> "v"
      [] OTHER -> c

Lower(s) == [i \in 1..Len(s) |-> LowerChar(s[i])]

\* k in s, for Python str
Contains(k, s) ==
    \E i \in 0..(Len(s) - Len(k)) : SubSeq(s, i + 1, i + Len(k)) = k

\* datetime.isoformat(): zero-padded fixed-width fields, and the fraction
\* only when the microsecond is not 0
IsoFormat(t) ==
    << Digit[((t.sec \div 1000) % 10) + 1], Digit[((t.sec \div 100) % 10) + 1],
       Digit[((t.sec \div 10) % 10) + 1], Digit[(t.sec % 10) + 1] >>
    \o (IF t.us = 0 THEN << >> ELSE << ".", Digit[(t.us % 10) + 1] >>)

-----------------------------------------------------------------------------
(* Python values *)

EmptyDict == << >>

\* d.get(k, default)
Get(d, k, default) == IF k \in DOMAIN d THEN d[k] ELSE default

\* d[k] = v on a dict
DictSet(d, k, v) == [x \in (DOMAIN d) \cup {k} |-> IF x = k THEN v ELSE d[x]]

\* del d[k]
DictDel(d, k) == [x \in (DOMAIN d) \ {k} |-> d[x]]

PyList(items) == [ty |-> "list", items |-> items]
PyStr(chars)  == [ty |-> "str", items |-> chars]
PyTuple(items) == [ty |-> "tuple", items |-> items]

\* A value that is a JSON object (a dict with string keys): every other
\* value of a document carries its type, and has no .get
IsRecord(v) == "ty" \notin DOMAIN v

\* seq[-n:] for a non-empty list of length k: -n is an index from the end
\* when n > 0, index 0 when n = 0, and the index |n| from the start when n < 0
LastSlice(seq, n) ==
    LET k == Len(seq)
        start == IF n > 0 THEN Max(k - n, 0) ELSE Min(0 - n, k)
    IN  SubSeq(seq, start + 1, k)


\* Optional[...] arguments: None, or a value
None == << >>
Some(x) == << x >>

\* An exception that leaves the operation
Raised(e) == [exc |-> e]
IsRaised(v) == DOMAIN v = {"exc"}

-----------------------------------------------------------------------------
(* The file system *)

StorePaths == {"mem", "mem2"}
ExportPath == "exp"

\* f"{self.memory_file}.backup"
BackupOf(path) == IF path = "mem" THEN "mem.backup" ELSE "mem2.backup"

Paths == StorePaths \cup {BackupOf(p) : p \in StorePaths} \cup {ExportPath}

Absent     == [kind |-> "absent"]        \* no such file
Unreadable == [kind |-> "unreadable"]    \* exists, open(...,'r') raises
Garbage    == [kind |-> "garbage"]       \* bytes json.load cannot decode
JsonFile(v) == [kind |-> "json", value |-> v]

\* What json.load reads back of a value json.dump has written: a tuple is
\* written as an array, and an array is read as a list
JsonValue(v) == IF v.ty = "tuple" THEN PyList(v.items) ELSE v

\* The document json.load reads back of the text of d: the values of the
\* context map are the ones the callers of set_context_value chose
JsonDocument(d) ==
    IF "context" \in DOMAIN d /\ IsRecord(d["context"])
    THEN DictSet(d, "context",
                 [k \in DOMAIN d["context"] |-> JsonValue(d["context"][k])])
    ELSE d

\* json.dump(self.data, f, ensure_ascii=False, indent=2): the text of a dict
JsonDump(d) == JsonFile([ty |-> "dict", items |-> JsonDocument(d)])

\* A working directory with nothing in it
EmptyTree == [q \in {<< >>} |-> [kind |-> "dir"]]

\* What the environment lets a save or an export do
IoOutcomes == {"ok", "backup_fails", "open_fails", "dump_fails"}

-----------------------------------------------------------------------------
(* Memory (src/src/polo/memory.py) *)

Conversations(d) == d["conversations"].items

\* The conversations of the document are a list, as add_conversation needs
IsListStore(d) == d["conversations"].ty = "list"

CreateEmptyMemory(t) ==
    [conversations |-> PyList(<< >>),
     context       |-> EmptyDict,
     metadata      |-> [created_at |-> IsoFormat(t), version |-> "1.0"]]

LoadMemory(content, t) ==
    IF content.kind = "absent" THEN CreateEmptyMemory(t)
    ELSE IF content.kind # "json" THEN CreateEmptyMemory(t)
    ELSE
        LET d0 == IF content.value.ty = "dict" THEN content.value.items
                  ELSE EmptyDict
            d1 == IF "conversations" \in DOMAIN d0 THEN d0
                  ELSE DictSet(d0, "conversations", PyList(<< >>))
            d2 == IF "context" \in DOMAIN d1 THEN d1
                  ELSE DictSet(d1, "context", EmptyDict)
            d3 == IF "metadata" \in DOMAIN d2 THEN d2
                  ELSE DictSet(d2, "metadata",
                               [created_at |-> IsoFormat(t), version |-> "1.0"])
        IN  d3

\* The result of save_memory: the file system after it, and what it returns
SaveMemory(d, dk, path, io) ==
    LET exists    == dk[path].kind # "absent"
        copyFails == exists /\ (io = "backup_fails" \/ dk[path].kind = "unreadable")
        dk1       == IF exists THEN [dk EXCEPT ![BackupOf(path)] = dk[path]] ELSE dk
    IN  IF copyFails THEN [disk |-> dk, ok |-> FALSE]
        ELSE IF io = "open_fails" THEN [disk |-> dk1, ok |-> FALSE]
        ELSE IF io = "dump_fails"
             THEN [disk |-> [dk1 EXCEPT ![path] = Garbage], ok |-> FALSE]
        ELSE [disk |-> [dk1 EXCEPT ![path] = JsonDump(d)], ok |-> TRUE]

\* for i, conv in enumerate(convs, 1): conv["id"] = i
Renumber(convs) == [i \in 1..Len(convs) |-> DictSet(convs[i], "id", i)]

\* Truncate without the loop that assigns the ids again
TruncateKeepsIds(convs) ==
    IF Len(convs) > MaxConversations
    THEN SubSeq(convs, Len(convs) - MaxConversations + 1, Len(convs))
    ELSE convs

\* self.data["conversations"][-max_conversations:], then the ids again
Truncate(convs) ==
    IF Len(convs) > MaxConversations
    THEN Renumber(SubSeq(convs, Len(convs) - MaxConversations + 1, Len(convs)))
    ELSE convs

\* metadata or {}
MetadataOrEmpty(m) == IF m = None THEN EmptyDict ELSE m[1]

\* add_conversation that takes the record back when the save fails
AddConversationRollsBack(d, dk, path, t, user_input, assistant_output, metadata, io) ==
    IF d["conversations"].ty # "list"
    THEN [data |-> d, disk |-> dk, ret |-> FALSE]
    ELSE
        LET conversation ==
                [id        |-> Len(Conversations(d)) + 1,
                 timestamp |-> IsoFormat(t),
                 user      |-> user_input,
                 assistant |-> assistant_output,
                 metadata  |-> MetadataOrEmpty(metadata)]
            convs == Truncate(Append(Conversations(d), conversation))
            d1    == [d EXCEPT !["conversations"] = PyList(convs)]
            saved == SaveMemory(d1, dk, path, io)
        IN  [data |-> IF saved.ok THEN d1 ELSE d, disk |-> saved.disk, ret |-> saved.ok]

\* The result of add_conversation: the document, the file system, the return
AddConversation(d, dk, path, t, user_input, assistant_output, metadata, io) ==
    IF d["conversations"].ty # "list"
    THEN [data |-> d, disk |-> dk, ret |-> FALSE]
    ELSE
        LET conversation ==
                [id        |-> Len(Conversations(d)) + 1,
                 timestamp |-> IsoFormat(t),
                 user      |-> user_input,
                 assistant |-> assistant_output,
                 metadata  |-> MetadataOrEmpty(metadata)]
            convs == Truncate(Append(Conversations(d), conversation))
            d1    == [d EXCEPT !["conversations"] = PyList(convs)]
            saved == SaveMemory(d1, dk, path, io)
        IN  [data |-> d1, disk |-> saved.disk, ret |-> saved.ok]

\* get_recent_conversations: conversations[-n:] if conversations else []
GetRecentConversations(d, n) ==
    LET c == d["conversations"]
    IN  IF c.items = << >> THEN << >>
        ELSE IF c.ty = "list" THEN LastSlice(c.items, n)
        ELSE [ty |-> c.ty, items |-> LastSlice(c.items, n)]


\* The result of clear_memory
ClearMemory(d, dk, path, t, io) ==
    LET d1    == CreateEmptyMemory(t)
        saved == SaveMemory(d1, dk, path, io)
    IN  [data |-> d1, disk |-> saved.disk, ret |-> saved.ok]

\* The result of export_memory: the file system after it, and what it returns
ExportMemory(d, dk, export_file, io) ==
    IF io = "open_fails" THEN [disk |-> dk, ok |-> FALSE]
    ELSE IF io = "dump_fails"
         THEN [disk |-> [dk EXCEPT ![export_file] = Garbage], ok |-> FALSE]
    ELSE [disk |-> [dk EXCEPT ![export_file] = JsonDump(d)], ok |-> TRUE]

\* (conv.get('timestamp', ''), conv.get('user', ''), conv.get('assistant', ''))
DedupKey(conv) ==
    << Get(conv, "timestamp", << >>), Get(conv, "user", << >>),
       Get(conv, "assistant", << >>) >>

\* The keys of the records i..j of a list
KeysOf(convs, i, j) == {DedupKey(convs[k]) : k \in i..j}

\* The loop of import_memory over the records lo..hi of existing + imported,
\* seen holding the keys met before lo: the first record of each key is
\* kept.  The range is halved, the second half run with the keys of the
\* first among those seen, which keeps the depth of the evaluation small on
\* a list of a thousand records
RECURSIVE DedupRange(_, _, _, _)
DedupRange(convs, lo, hi, seen) ==
    IF lo > hi THEN << >>
    ELSE IF lo = hi
         THEN (IF DedupKey(convs[lo]) \in seen THEN << >> ELSE << convs[lo] >>)
    ELSE LET mid == (lo + hi) \div 2
         IN  DedupRange(convs, lo, mid, seen)
             \o DedupRange(convs, mid + 1, hi, seen \cup KeysOf(convs, lo, mid))

Dedup(convs, seen, combined) ==
    combined \o DedupRange(convs, 1, Len(convs), seen)

SortKey(conv) == Get(conv, "timestamp", << >>)

\* How many records of a sorted list stay before a record of the given key:
\* those whose key is not greater, or, when strict, those whose key is
\* smaller; found by bisection between lo and hi
RECURSIVE Bisect(_, _, _, _, _)
Bisect(sorted, key, lo, hi, strict) ==
    IF lo >= hi THEN lo
    ELSE LET mid   == (lo + hi) \div 2
             other == SortKey(sorted[mid + 1])
         IN  IF (IF strict THEN StrLess(other, key) ELSE StrLeq(other, key))
             THEN Bisect(sorted, key, mid + 1, hi, strict)
             ELSE Bisect(sorted, key, lo, mid, strict)

\* InsertSorted of a sort that is not stable: x goes before the records of
\* its own key
InsertSortedBeforeTies(sorted, x) ==
    LET pos == Bisect(sorted, SortKey(x), 0, Len(sorted), TRUE)
    IN  SubSeq(sorted, 1, pos) \o << x >> \o SubSeq(sorted, pos + 1, Len(sorted))

\* Where a stable sort puts x in a list already sorted: behind every record
\* whose key is not greater
InsertSorted(sorted, x) ==
    LET pos == Bisect(sorted, SortKey(x), 0, Len(sorted), FALSE)
    IN  SubSeq(sorted, 1, pos) \o << x >> \o SubSeq(sorted, pos + 1, Len(sorted))

\* import_memory without the sort
SortByTimestampSkipped(convs) == convs

\* The records i..hi of convs inserted one by one into a sorted list (the
\* length is asked for so that the list is computed before the next record
\* is inserted, and not all insertions at the end)
RECURSIVE InsertAll(_, _, _, _)
InsertAll(sorted, convs, i, hi) ==
    IF Len(sorted) >= 0 /\ i > hi THEN sorted
    ELSE InsertAll(InsertSorted(sorted, convs[i]), convs, i + 1, hi)

\* The records from b on inserted into a sorted list, SortBlock of them at
\* a time
RECURSIVE SortFrom(_, _, _)
SortFrom(sorted, convs, b) ==
    IF Len(sorted) >= 0 /\ b > Len(convs) THEN sorted
    ELSE SortFrom(InsertAll(sorted, convs, b, Min(b + SortBlock - 1, Len(convs))),
                  convs, b + SortBlock)

\* combined.sort(key=lambda x: x.get('timestamp', '')): list.sort is stable
SortByTimestamp(convs) == SortFrom(<< >>, convs, 1)

\* import_memory left at its format check, or by an exception: nothing has
\* been assigned, and False is returned
ImportFailedResetsStore(d, dk) ==
    [data |-> DictSet(d, "conversations", PyList(<< >>)), disk |-> dk, ret |-> FALSE]

ImportFailed(d, dk) == [data |-> d, disk |-> dk, ret |-> FALSE]

\* The result of import_memory
ImportMemory(d, dk, path, import_file, io) ==
    LET content == dk[import_file]
        failed  == ImportFailed(d, dk)
    IN  IF content.kind # "json" THEN failed
        ELSE IF content.value.ty # "dict" THEN failed
        ELSE IF "conversations" \notin DOMAIN content.value.items THEN failed
        ELSE
            LET existing == Get(d, "conversations", PyList(<< >>))
                imported == content.value.items["conversations"]
            IN  \* existing + imported raises unless both are lists or both
                \* are strings; a character of a string has no .get, and no
                \* more has an element that is not an object
                IF existing.ty # imported.ty THEN failed
                ELSE IF existing.ty # "list" /\ existing.items \o imported.items # << >>
                     THEN failed
                ELSE IF /\ existing.ty = "list"
                        /\ \E i \in 1..Len(existing.items \o imported.items) :
                              ~IsRecord((existing.items \o imported.items)[i])
                     THEN failed
                ELSE
                    LET combined == Renumber(SortByTimestamp(
                                        Dedup(existing.items \o imported.items, {}, << >>)))
                        d1       == DictSet(d, "conversations", PyList(combined))
                        saved    == SaveMemory(d1, dk, path, io)
                    IN  [data |-> d1, disk |-> saved.disk, ret |-> saved.ok]

\* set_context_value: the item assignment raises on a context that is no
\* dict, and False is returned
SetContextValue(d, dk, path, key, value, io) ==
    IF ~IsRecord(d["context"]) THEN [data |-> d, disk |-> dk, ret |-> FALSE]
    ELSE LET d1    == DictSet(d, "context", DictSet(d["context"], key, value))
             saved == SaveMemory(d1, dk, path, io)
         IN  [data |-> d1, disk |-> saved.disk, ret |-> saved.ok]

\* get_context_value: self.data["context"].get(key, default), with no try
\* around it
GetContextValue(d, key, default) ==
    IF ~IsRecord(d["context"]) THEN Raised("AttributeError")
    ELSE Get(d["context"], key, default)

\* remove_context_value: key in a list or a string that does not hold it
\* is False and True is returned, on a number or null the test raises; in
\* a dict that has the key, the key is deleted and the document saved
RemoveContextValue(d, dk, path, key, io) ==
    IF ~IsRecord(d["context"])
    THEN [data |-> d, disk |-> dk, ret |-> d["context"].ty \in {"list", "str"}]
    ELSE IF key \in DOMAIN d["context"]
    THEN LET d1    == DictSet(d, "context", DictDel(d["context"], key))
             saved == SaveMemory(d1, dk, path, io)
         IN  [data |-> d1, disk |-> saved.disk, ret |-> saved.ok]
    ELSE [data |-> d, disk |-> dk, ret |-> TRUE]

\* keyword_lower in conv['user'].lower() or keyword_lower in conv['assistant'].lower()
MatchRaises(conv, keyword_lower) ==
    \/ "user" \notin DOMAIN conv
    \/ /\ ~Contains(keyword_lower, Lower(conv["user"]))
       /\ "assistant" \notin DOMAIN conv

Matches(conv, keyword_lower) ==
    \/ Contains(keyword_lower, Lower(conv["user"]))
    \/ Contains(keyword_lower, Lower(conv["assistant"]))

\* The loop of search_conversations over reversed(conversations), from index i down
RECURSIVE SearchFrom(_, _, _, _, _)
SearchFrom(convs, i, keyword_lower, limit, results) ==
    IF i = 0 THEN results
    ELSE IF MatchRaises(convs[i], keyword_lower) THEN Raised("KeyError")
    ELSE IF Matches(convs[i], keyword_lower)
         THEN LET r == Append(results, convs[i])
              IN  IF Len(r) >= limit THEN r
                  ELSE SearchFrom(convs, i - 1, keyword_lower, limit, r)
    ELSE SearchFrom(convs, i - 1, keyword_lower, limit, results)

\* search_conversations: a list of records, or the exception it raises
SearchConversations(d, keyword, limit) ==
    LET c == d["conversations"]
    IN  IF c.ty # "list"
        THEN (IF c.items = << >> THEN << >> ELSE Raised("TypeError"))
        ELSE SearchFrom(c.items, Len(c.items), Lower(keyword), limit, << >>)


-----------------------------------------------------------------------------
(* Inputs *)

\* Readings of datetime.now(): the wall clock may stand still or be set back
Readings == {[sec |-> 0, us |-> 1], [sec |-> 1, us |-> 0]}

\* Readings taken when a document is created (load_memory, clear_memory)
CreationReadings == {[sec |-> 1, us |-> 0]}

UserTexts      == {<< "A", "b" >>, << "x" >>}
AssistantTexts == {<< "a", "B" >>}
Metadatas      == {None}

Ns       == {-1, 0, 1, 2}
Keywords == {<< "a", "B" >>, << "x" >>}
Limits   == {0, 1, 2}

Record(id, ts, u, a) ==
    [id |-> id, timestamp |-> ts, user |-> u, assistant |-> a, metadata |-> EmptyDict]

\* A record of another store, told apart by its metadata
Foreign(id, ts, u, a) ==
    [id |-> id, timestamp |-> ts, user |-> u, assistant |-> a,
     metadata |-> [origin |-> "other"]]

Document(convs) ==
    [conversations |-> PyList(convs),
     context       |-> EmptyDict,
     metadata      |-> [created_at |-> IsoFormat([sec |-> 0, us |-> 0]), version |-> "1.0"]]

WellFormedFile ==
    JsonDump(Document(<< Record(1, IsoFormat([sec |-> 0, us |-> 1]), << "x" >>, << "a", "B" >>) >>))

\* What the memory file may hold when a store is opened on it
InitFiles ==
    { Absent, Unreadable, Garbage,
      JsonFile(PyList(<< >>)),
      JsonFile([ty |-> "dict", items |-> [context |-> [k |-> PyStr(<< "v" >>)]]]),
      JsonFile([ty |-> "dict", items |-> [conversations |-> PyStr(<< "a", "b" >>)]]),
      JsonDump(Document(<< >>)),
      WellFormedFile }

\* Files import_memory may be pointed at
ImportFiles ==
    { Garbage,
      JsonFile([ty |-> "dict", items |-> [context |-> EmptyDict]]),
      JsonDump(Document(<< Foreign(7, << "9" >>, << "x" >>, << "a", "B" >>),
                           Foreign(3, IsoFormat([sec |-> 0, us |-> 1]), << "x" >>, << "a", "B" >>),
                           Foreign(5, << "1", "0" >>, << "A", "b" >>, << "a", "B" >>),
                           Foreign(9, << "9" >>, << "A", "b" >>, << "a", "B" >>) >>)),
      JsonDump(Document(<< [user |-> << "x" >>, assistant |-> << "a", "B" >>],
                           Foreign(2, IsoFormat([sec |-> 0, us |-> 1]), << "A", "b" >>, << "a", "B" >>),
                           Foreign(2, IsoFormat([sec |-> 0, us |-> 1]), << "A", "b" >>, << "a", "B" >>) >>)) }

\* Import files that are no mapping, or whose conversations entry is no list
\* of records
MalformedImportFiles ==
    { JsonFile(PyList(<< >>)),
      JsonFile([ty |-> "dict", items |-> [conversations |-> PyStr(<< "a", "b" >>)]]),
      JsonDump(Document(<< Foreign(7, << "9" >>, << "x" >>, << "a", "B" >>),
                           PyStr(<< "x" >>) >>)) }

-----------------------------------------------------------------------------
(* The Memory Store's operations, called in any order *)

ReplIdle ==
    /\ pc = "start" /\ running = TRUE /\ command_count = 0
    /\ use_memory = TRUE /\ llm_client = "ok" /\ tool_history = << >>
    /\ reads = 0
    /\ fs = EmptyTree
    /\ tool_calls = << >>
    /\ event = [kind |-> "none"] /\ printed = [msg |-> "none"]

\* The environment produces the outcome io: a failure counts against MaxFaults,
\* and the backup copy can only fail when there is a file to copy
Environment(io, path) ==
    /\ io = "backup_fails" => disk[path].kind # "absent"
    /\ IF io = "ok" THEN faults' = faults
       ELSE faults < MaxFaults /\ faults' = faults + 1

\* Memory.__init__: a store opened on path
Open(path, t) ==
    /\ memory_file' = path
    /\ data' = LoadMemory(disk[path], t)
    /\ call' = [op |-> "load", path |-> path]
    /\ ret' = data'
    /\ ops' = ops + 1
    /\ UNCHANGED <<disk, faults, replVars>>

DoSaveMemory(io) ==
    /\ Environment(io, memory_file)
    /\ LET r == SaveMemory(data, disk, memory_file, io)
       IN  /\ disk' = r.disk
           /\ ret' = r.ok
    /\ call' = [op |-> "save", io |-> io]
    /\ ops' = ops + 1
    /\ UNCHANGED <<memory_file, data, replVars>>

DoAddConversation(t, u, a, m, io) ==
    /\ Environment(io, memory_file)
    /\ LET r == AddConversation(data, disk, memory_file, t, u, a, m, io)
       IN  /\ data' = r.data
           /\ disk' = r.disk
           /\ ret' = r.ret
    /\ call' = [op |-> "add", io |-> io]
    /\ ops' = ops + 1
    /\ UNCHANGED <<memory_file, replVars>>

DoGetRecentConversations(n) ==
    /\ ret' = GetRecentConversations(data, n)
    /\ call' = [op |-> "get_recent", n |-> n]
    /\ ops' = ops + 1
    /\ UNCHANGED <<memory_file, data, disk, faults, replVars>>

DoSearchConversations(keyword, limit) ==
    /\ ret' = SearchConversations(data, keyword, limit)
    /\ call' = [op |-> "search", keyword |-> keyword, limit |-> limit]
    /\ ops' = ops + 1
    /\ UNCHANGED <<memory_file, data, disk, faults, replVars>>

DoClearMemory(t, io) ==
    /\ Environment(io, memory_file)
    /\ LET r == ClearMemory(data, disk, memory_file, t, io)
       IN  /\ data' = r.data
           /\ disk' = r.disk
           /\ ret' = r.ret
    /\ call' = [op |-> "clear", io |-> io]
    /\ ops' = ops + 1
    /\ UNCHANGED <<memory_file, replVars>>

DoExportMemory(io) ==
    /\ io # "backup_fails"
    /\ Environment(io, memory_file)
    /\ LET r == ExportMemory(data, disk, ExportPath, io)
       IN  /\ disk' = r.disk
           /\ ret' = r.ok
    /\ call' = [op |-> "export", io |-> io]
    /\ ops' = ops + 1
    /\ UNCHANGED <<memory_file, data, replVars>>

DoImportMemory(io) ==
    /\ Environment(io, memory_file)
    /\ LET r == ImportMemory(data, disk, memory_file, ExportPath, io)
       IN  /\ data' = r.data
           /\ disk' = r.disk
           /\ ret' = r.ret
    /\ call' = [op |-> "import", io |-> io, before |-> data, file |-> disk[ExportPath]]
    /\ ops' = ops + 1
    /\ UNCHANGED <<memory_file, replVars>>

\* A store opened on a memory file of any content, or on a well-formed one
\* with a file to import beside it
InitDisks ==
    { [p \in Paths |-> IF p = "mem" THEN f ELSE Absent] : f \in InitFiles }
    \cup
    { [p \in Paths |-> IF p = "mem" THEN f ELSE IF p = ExportPath THEN g ELSE Absent] :
        f \in {Absent, WellFormedFile}, g \in ImportFiles }
    \cup
    { [p \in Paths |-> IF p = "mem" THEN WellFormedFile
                       ELSE IF p = ExportPath THEN g ELSE Absent] :
        g \in MalformedImportFiles }

Init ==
    /\ memory_file = "mem"
    /\ disk \in InitDisks
    /\ \E t \in CreationReadings : data = LoadMemory(disk["mem"], t)
    /\ call = [op |-> "load", path |-> "mem"]
    /\ ret = data
    /\ ops = 0
    /\ faults = 0
    /\ ReplIdle

Next ==
    \/ \E t \in CreationReadings : ops < MaxOps /\ Open(memory_file, t)
    \/ \E io \in IoOutcomes : ops < MaxOps /\ DoSaveMemory(io)
    \/ \E t \in Readings, u \in UserTexts, a \in AssistantTexts, m \in Metadatas,
          io \in IoOutcomes : ops < MaxOps /\ DoAddConversation(t, u, a, m, io)
    \/ \E t \in CreationReadings, io \in IoOutcomes : ops < MaxOps /\ DoClearMemory(t, io)
    \/ \E io \in IoOutcomes : ops < MaxOps /\ DoExportMemory(io)
    \/ \E io \in IoOutcomes : ops < MaxOps /\ DoImportMemory(io)

Spec == Init /\ [][Next]_vars

\* The queries, on every store a file or add_conversation produces
NextQuery ==
    \/ \E t \in Readings, u \in UserTexts, a \in AssistantTexts, m \in Metadatas :
          ops < MaxOps /\ DoAddConversation(t, u, a, m, "ok")
    \/ \E n \in Ns : ops < MaxOps /\ DoGetRecentConversations(n)
    \/ \E k \in Keywords, l \in Limits : ops < MaxOps /\ DoSearchConversations(k, l)

SpecQuery == Init /\ [][NextQuery]_vars

\* A new store on a path where no file is
InitFresh ==
    /\ memory_file = "mem"
    /\ disk = [p \in Paths |-> Absent]
    /\ \E t \in CreationReadings : data = LoadMemory(disk["mem"], t)
    /\ call = [op |-> "load", path |-> "mem"]
    /\ ret = data
    /\ ops = 0
    /\ faults = 0
    /\ ReplIdle

\* The user text of the k-th call of a run of add_conversation calls
CapText(k) == IF k % 2 = 0 THEN << "x" >> ELSE << "A", "b" >>

\* add_conversation called again and again on a new store, the clock one
\* second further at each call
NextCap ==
    /\ ops < MaxCapCalls
    /\ DoAddConversation([sec |-> ops + 1, us |-> 0], CapText(ops + 1),
                         << "a", "B" >>, None, "ok")

SpecCap == InitFresh /\ [][NextCap]_vars

\* A store filled by add_conversation and exported, and a new store on
\* another path that imports the export
NextTrip ==
    \/ \E t \in Readings, u \in UserTexts, a \in AssistantTexts, m \in Metadatas,
          io \in IoOutcomes :
          ops < MaxTripOps /\ memory_file = "mem" /\ DoAddConversation(t, u, a, m, io)
    \/ \E io \in IoOutcomes :
          ops < MaxTripOps /\ memory_file = "mem" /\ DoExportMemory(io)
    \/ \E t \in CreationReadings :
          ops < MaxTripOps /\ memory_file = "mem" /\ Open("mem2", t)
    \/ \E io \in IoOutcomes :
          ops < MaxTripOps /\ memory_file = "mem2" /\ DoImportMemory(io)

SpecTrip == InitFresh /\ [][NextTrip]_vars

-----------------------------------------------------------------------------
(* Tools (src/src/polo/tools.py) *)

\* _log_tool_usage cutting to the first 100 entries instead of the last
LogToolUsageKeepsOldest(history, t, tool, params) ==
    LET h == Append(history, [timestamp |-> IsoFormat(t), tool |-> tool,
                              params |-> params])
    IN  IF Len(h) > MaxToolHistory THEN SubSeq(h, 1, MaxToolHistory) ELSE h

\* Tools._log_tool_usage: the entry is appended and the last 100 are kept
LogToolUsage(history, t, tool, params) ==
    LET h == Append(history, [timestamp |-> IsoFormat(t), tool |-> tool,
                              params |-> params])
    IN  IF Len(h) > MaxToolHistory
        THEN SubSeq(h, Len(h) - MaxToolHistory + 1, Len(h))
        ELSE h

\* Tools.get_tool_history(n)
GetToolHistory(history, n) ==
    IF history = << >> THEN << >> ELSE LastSlice(history, n)

\* Tools.clear_tool_history
ClearToolHistory(history) == << >>

(* Paths and the file tree.  A path is the sequence of its names, relative   *)
(* to the working directory, which is the path << >>; a node is a directory  *)
(* or a file with its text.                                                  *)

\* The names of a path text, split at "/", without the empty names and "."
RECURSIVE PathNames(_, _, _)
PathNames(chars, name, names) ==
    LET done == IF name = << >> \/ name = << "." >> THEN names ELSE Append(names, name)
    IN  IF chars = << >> THEN done
        ELSE IF Head(chars) = "/" THEN PathNames(Tail(chars), << >>, done)
        ELSE PathNames(Tail(chars), Append(name, Head(chars)), names)

\* Path(filepath)
ParsePath(filepath) == PathNames(filepath, << >>, << >>)

\* path.exists(), path.is_dir(), path.is_file()
Exists(tree, p) == p \in DOMAIN tree
IsDir(tree, p) == p \in DOMAIN tree /\ tree[p].kind = "dir"
IsFile(tree, p) == p \in DOMAIN tree /\ tree[p].kind = "file"

\* q is p or lies below p
Below(p, q) == Len(q) >= Len(p) /\ SubSeq(q, 1, Len(p)) = p

\* current_path.iterdir(): the entries of the directory p
Entries(tree, p) == {q \in DOMAIN tree : Len(q) = Len(p) + 1 /\ Below(p, q)}

\* item.name
NameOfPath(q) == q[Len(q)]

\* item.name.startswith('.')
IsHidden(q) == NameOfPath(q) # << >> /\ Head(NameOfPath(q)) = "."

\* The tree without the nodes of a set of paths, and with new nodes
Without(tree, gone) == [q \in (DOMAIN tree) \ gone |-> tree[q]]
WithNodes(tree, nodes) ==
    [q \in (DOMAIN tree) \cup (DOMAIN nodes) |->
        IF q \in DOMAIN nodes THEN nodes[q] ELSE tree[q]]

Dir == [kind |-> "dir"]
File(text) == [kind |-> "file", text |-> text]

\* The proper ancestors of p, the working directory apart
Ancestors(p) == {SubSeq(p, 1, k) : k \in 1..(Len(p) - 1)}

\* path.parent.mkdir(parents=True, exist_ok=True): the tree with the missing
\* ancestors of p, and whether it raises because one of them is a file
MkdirRaises(tree, p) == \E a \in Ancestors(p) : IsFile(tree, a)
MkdirParents(tree, p) ==
    IF MkdirRaises(tree, p) THEN tree
    ELSE WithNodes(tree, [a \in Ancestors(p) \ DOMAIN tree |-> Dir])

\* fnmatch.fnmatch(name, pattern) for patterns of literal characters, "?"
\* and "*"
RECURSIVE Fnmatch(_, _)
Fnmatch(name, pattern) ==
    IF pattern = << >> THEN name = << >>
    ELSE IF Head(pattern) = "*"
         THEN \/ Fnmatch(name, Tail(pattern))
              \/ name # << >> /\ Fnmatch(Tail(name), pattern)
    ELSE IF name = << >> THEN FALSE
    ELSE /\ Head(pattern) = "?" \/ Head(pattern) = Head(name)
         /\ Fnmatch(Tail(name), Tail(pattern))

\* What a tool operation did: the usage history and the file tree after it,
\* and the report it returned
Done(history, tree, report) ==
    [tool_history |-> history, fs |-> tree, report |-> report]

\* A report: its kind, and what it is about
Report(status, about) == [status |-> status, about |-> about]

\* sorted(...) of a set of entries of one directory: by name
RECURSIVE SortedByName(_)
SortedByName(S) ==
    IF S = {} THEN << >>
    ELSE LET m == CHOOSE x \in S :
                      \A y \in S : ~StrLess(NameOfPath(y), NameOfPath(x))
         IN  << m >> \o SortedByName(S \ {m})

Reversed(seq) == [i \in 1..Len(seq) |-> seq[Len(seq) + 1 - i]]

\* The entries of a directory in the order iterdir() yields them, which the
\* file system decides
IterDir(tree, p, order) ==
    IF order = "ascending" THEN SortedByName(Entries(tree, p))
    ELSE Reversed(SortedByName(Entries(tree, p)))

\* The first lines a text file yields when iterated, limit of them at most,
\* from the character at from on: each ends behind its "\n"
RECURSIVE FileLines(_, _, _)
FileLines(text, from, limit) ==
    IF from > Len(text) \/ limit = 0 THEN << >>
    ELSE LET end == IF \E i \in from..Len(text) : text[i] = "\n"
                    THEN CHOOSE i \in from..Len(text) :
                             /\ text[i] = "\n"
                             /\ \A j \in from..(i - 1) : text[j] # "\n"
                    ELSE Len(text)
         IN  << SubSeq(text, from, end) >> \o FileLines(text, end + 1, limit - 1)

\* line.rstrip()
RECURSIVE RStripLine(_)
RStripLine(s) ==
    IF s # << >> /\ s[Len(s)] \in {" ", "\n"}
    THEN RStripLine(SubSeq(s, 1, Len(s) - 1)) ELSE s

\* execute_shell: what the command does to the files is the command's own
\* business; what subprocess.run reports comes from the environment
ExecuteShell(history, tree, t, command, outcome) ==
    LET logged == LogToolUsage(history, t, "shell", [command |-> command, cwd |-> None])
    IN  CASE outcome = "ok"      -> Done(logged, tree, Report("ok", command))
          [] outcome = "nonzero" -> Done(logged, tree, Report("return_code", command))
          [] outcome = "timeout" -> Done(logged, tree, Report("timeout", command))
          [] OTHER               -> Done(logged, tree, Report("error", command))

\* read_file: max_lines is None or an int; the lines of the report are the
\* lines read, a truncation marker behind them when more is set
ReadFile(history, tree, t, filepath, max_lines, io) ==
    LET logged == LogToolUsage(history, t, "read_file",
                               [filepath |-> filepath, max_lines |-> max_lines])
        p      == ParsePath(filepath)
    IN  IF ~Exists(tree, p) THEN Done(logged, tree, Report("not_found", filepath))
        ELSE IF ~IsFile(tree, p) THEN Done(logged, tree, Report("not_a_file", filepath))
        ELSE IF io = "undecodable" THEN Done(logged, tree, Report("decode_error", filepath))
        ELSE IF io = "denied" THEN Done(logged, tree, Report("denied", filepath))
        ELSE
            LET text == tree[p].text
            IN  IF max_lines # None /\ max_lines[1] # 0
                THEN LET all  == FileLines(text, 1, Max(max_lines[1], 0) + 1)
                         kept == Min(Len(all), Max(max_lines[1], 0))
                     IN  Done(logged, tree,
                              [status |-> "ok", about |-> filepath, size |-> Len(text),
                               lines |-> [i \in 1..kept |-> RStripLine(all[i])],
                               more |-> Len(all) > kept])
                ELSE Done(logged, tree,
                          [status |-> "ok", about |-> filepath, size |-> Len(text),
                           text |-> SubSeq(text, 1, Min(Len(text), ReadLimit)),
                           more |-> Len(text) > ReadLimit])

\* write_file
WriteFile(history, tree, t, filepath, content, append, io) ==
    LET logged == LogToolUsage(history, t, "write_file",
                               [filepath |-> filepath, content_length |-> Len(content),
                                append |-> append])
        p      == ParsePath(filepath)
        made   == MkdirParents(tree, p)
    IN  IF io = "denied" THEN Done(logged, tree, Report("denied", filepath))
        ELSE IF MkdirRaises(tree, p) THEN Done(logged, tree, Report("error", filepath))
        ELSE IF p = << >> \/ IsDir(made, p) THEN Done(logged, made, Report("error", filepath))
        ELSE LET old  == IF append /\ IsFile(made, p) THEN made[p].text ELSE << >>
                 text == old \o content
             IN  Done(logged, WithNodes(made, [q \in {p} |-> File(text)]),
                      [status |-> "ok", about |-> filepath, size |-> Len(text)])

\* list_directory
ListDirectory(history, tree, t, path, show_hidden, io) ==
    LET logged == LogToolUsage(history, t, "list_directory",
                               [path |-> path, show_hidden |-> show_hidden])
        p      == ParsePath(path)
    IN  IF ~Exists(tree, p) THEN Done(logged, tree, Report("not_found", path))
        ELSE IF ~IsDir(tree, p) THEN Done(logged, tree, Report("not_a_directory", path))
        ELSE IF io = "denied" THEN Done(logged, tree, Report("denied", path))
        ELSE LET shown == SortedByName({q \in Entries(tree, p) :
                                           show_hidden \/ ~IsHidden(q)})
             IN  Done(logged, tree,
                      [status |-> "ok", about |-> path,
                       items |-> [i \in 1..Len(shown) |->
                                     [name |-> NameOfPath(shown[i]),
                                      kind |-> tree[shown[i]].kind]]])

\* The nodes at and below src, as nodes at and below dst
Moved(tree, src, dst) ==
    LET from == {q \in DOMAIN tree : Below(src, q)}
    IN  [q \in {dst \o SubSeq(f, Len(src) + 1, Len(f)) : f \in from} |->
            tree[src \o SubSeq(q, Len(dst) + 1, Len(q))]]

\* copy_file: copytree(dirs_exist_ok=True) for a directory, copy2 for a file
\* (into dst when dst is a directory)
CopyFile(history, tree, t, src, dst, io) ==
    LET logged == LogToolUsage(history, t, "copy_file", [src |-> src, dst |-> dst])
        s      == ParsePath(src)
        d      == ParsePath(dst)
        made   == MkdirParents(tree, d)
    IN  IF ~Exists(tree, s) THEN Done(logged, tree, Report("not_found", src))
        ELSE IF io = "denied" THEN Done(logged, tree, Report("denied", src))
        ELSE IF MkdirRaises(tree, d) THEN Done(logged, tree, Report("error", src))
        ELSE IF IsDir(made, s)
             THEN IF IsFile(made, d) \/ Below(s, d)
                  THEN Done(logged, made, Report("error", src))
                  ELSE IF \E q \in DOMAIN Moved(made, s, d) :
                              q \in DOMAIN made /\ made[q].kind # Moved(made, s, d)[q].kind
                  THEN Done(logged, made, Report("error", src))
                  ELSE Done(logged, WithNodes(made, Moved(made, s, d)),
                            Report("ok_directory", src))
        ELSE LET target == IF IsDir(made, d) THEN Append(d, NameOfPath(s)) ELSE d
             IN  IF target = s \/ IsDir(made, target)
                 THEN Done(logged, made, Report("error", src))
                 ELSE Done(logged, WithNodes(made, [q \in {target} |-> made[s]]),
                           [status |-> "ok", about |-> src, size |-> Len(made[s].text)])

\* move_file: shutil.move moves into dst when dst is a directory, and
\* renames otherwise
MoveFile(history, tree, t, src, dst, io) ==
    LET logged == LogToolUsage(history, t, "move_file", [src |-> src, dst |-> dst])
        s      == ParsePath(src)
        d      == ParsePath(dst)
        made   == MkdirParents(tree, d)
    IN  IF ~Exists(tree, s) THEN Done(logged, tree, Report("not_found", src))
        ELSE IF io = "denied" THEN Done(logged, tree, Report("denied", src))
        ELSE IF MkdirRaises(tree, d) THEN Done(logged, tree, Report("error", src))
        ELSE LET target == IF IsDir(made, d) /\ d # s THEN Append(d, NameOfPath(s)) ELSE d
             IN  IF \/ s = << >>
                    \/ (Exists(made, target) /\ (IsDir(made, d) \/ IsDir(made, s)))
                    \/ Below(s, target)
                 THEN Done(logged, made, Report("error", src))
                 ELSE Done(logged,
                           WithNodes(Without(made, {q \in DOMAIN made : Below(s, q)}),
                                     Moved(made, s, target)),
                           Report("ok", src))

\* delete_file removing a directory whatever force is
DeleteFileUnforced(history, tree, t, filepath, force, io) ==
    LET logged == LogToolUsage(history, t, "delete_file",
                               [filepath |-> filepath, force |-> force])
        p      == ParsePath(filepath)
    IN  IF ~Exists(tree, p) THEN Done(logged, tree, Report("not_found", filepath))
        ELSE IF IsDir(tree, p)
             THEN Done(logged, Without(tree, {q \in DOMAIN tree : Below(p, q)}),
                       Report("ok_directory", filepath))
        ELSE Done(logged, Without(tree, {p}), Report("ok_file", filepath))

\* delete_file
DeleteFile(history, tree, t, filepath, force, io) ==
    LET logged == LogToolUsage(history, t, "delete_file",
                               [filepath |-> filepath, force |-> force])
        p      == ParsePath(filepath)
    IN  IF ~Exists(tree, p) THEN Done(logged, tree, Report("not_found", filepath))
        ELSE IF IsDir(tree, p)
             THEN IF ~force THEN Done(logged, tree, Report("is_directory", filepath))
                  ELSE IF io = "denied" THEN Done(logged, tree, Report("denied", filepath))
                  ELSE IF p = << >> THEN
                       Done(logged, Without(tree, {q \in DOMAIN tree : q # << >>}),
                            Report("error", filepath))
                  ELSE Done(logged, Without(tree, {q \in DOMAIN tree : Below(p, q)}),
                            Report("ok_directory", filepath))
        ELSE IF io = "denied" THEN Done(logged, tree, Report("denied", filepath))
        ELSE Done(logged, Without(tree, {p}), Report("ok_file", filepath))

\* search_recursive of find_files, with the entries still to visit on a
\* stack: a hidden entry is skipped with all below it, a matching entry is
\* added, a directory is entered before its next sibling, and nothing more
\* is visited once max_results paths are found
RECURSIVE SearchRecursive(_, _, _, _, _, _, _)
SearchRecursive(tree, search_path, pattern, max_results, order, stack, results) ==
    IF stack = << >> \/ Len(results) >= max_results THEN results
    ELSE LET item  == Head(stack)
             found == IF Fnmatch(NameOfPath(item), pattern)
                      THEN Append(results, SubSeq(item, Len(search_path) + 1, Len(item)))
                      ELSE results
             next  == IF IsDir(tree, item)
                      THEN IterDir(tree, item, order) \o Tail(stack)
                      ELSE Tail(stack)
         IN  IF IsHidden(item)
             THEN SearchRecursive(tree, search_path, pattern, max_results, order,
                                  Tail(stack), results)
             ELSE SearchRecursive(tree, search_path, pattern, max_results, order,
                                  next, found)

\* find_files
FindFiles(history, tree, t, pattern, path, max_results, order) ==
    LET logged == LogToolUsage(history, t, "find_files",
                               [pattern |-> pattern, path |-> path])
        p      == ParsePath(path)
    IN  IF ~Exists(tree, p) THEN Done(logged, tree, Report("path_not_found", path))
        ELSE
            LET results == IF IsDir(tree, p)
                           THEN SearchRecursive(tree, p, pattern, max_results, order,
                                                IterDir(tree, p, order), << >>)
                           ELSE << >>
            IN  IF results = << >> THEN Done(logged, tree, Report("no_match", pattern))
                ELSE Done(logged, tree,
                          [status |-> "ok", about |-> pattern, results |-> results,
                           capped |-> Len(results) >= max_results,
                           found |-> Len(results)])

\* get_system_info
GetSystemInfo(history, tree, t, outcome) ==
    LET logged == LogToolUsage(history, t, "get_system_info", EmptyDict)
    IN  CASE outcome = "ok"        -> Done(logged, tree, Report("ok", << >>))
          [] outcome = "no_psutil" -> Done(logged, tree, Report("import_error", << >>))
          [] OTHER                 -> Done(logged, tree, Report("error", << >>))

(* The tool operations as steps of a Tools object *)

\* datetime.now() at the next tool call: the clock is one second further at
\* each call
Clock == [sec |-> ops + 1, us |-> 0]

\* One call of a tool operation: the object's history and the files after
\* it, and the call added to the calls made since the last clear
ToolStep(c, done) ==
    /\ tool_history' = done.tool_history
    /\ fs' = done.fs
    /\ tool_calls' = Append(tool_calls, c)
    /\ call' = c
    /\ ret' = done.report
    /\ ops' = ops + 1
    /\ UNCHANGED <<memory_file, data, disk, faults, pc, running, command_count,
                   use_memory, llm_client, reads, event, printed>>

DoExecuteShell(command, outcome) ==
    ToolStep([op |-> "shell", t |-> Clock, command |-> command],
             ExecuteShell(tool_history, fs, Clock, command, outcome))

DoReadFile(filepath, max_lines, io) ==
    ToolStep([op |-> "read_file", t |-> Clock, filepath |-> filepath,
              max_lines |-> max_lines, io |-> io],
             ReadFile(tool_history, fs, Clock, filepath, max_lines, io))

DoWriteFile(filepath, content, append, io) ==
    ToolStep([op |-> "write_file", t |-> Clock, filepath |-> filepath,
              content |-> content, append |-> append, io |-> io],
             WriteFile(tool_history, fs, Clock, filepath, content, append, io))

DoListDirectory(path, show_hidden, io) ==
    ToolStep([op |-> "list_directory", t |-> Clock, path |-> path,
              show_hidden |-> show_hidden, io |-> io],
             ListDirectory(tool_history, fs, Clock, path, show_hidden, io))

DoCopyFile(src, dst, io) ==
    ToolStep([op |-> "copy_file", t |-> Clock, src |-> src, dst |-> dst, io |-> io],
             CopyFile(tool_history, fs, Clock, src, dst, io))

DoMoveFile(src, dst, io) ==
    ToolStep([op |-> "move_file", t |-> Clock, src |-> src, dst |-> dst, io |-> io],
             MoveFile(tool_history, fs, Clock, src, dst, io))

DoDeleteFile(filepath, force, io) ==
    ToolStep([op |-> "delete_file", t |-> Clock, filepath |-> filepath,
              force |-> force, io |-> io, before |-> fs],
             DeleteFile(tool_history, fs, Clock, filepath, force, io))

DoFindFiles(pattern, path, max_results, order) ==
    ToolStep([op |-> "find_files", t |-> Clock, pattern |-> pattern, path |-> path,
              max_results |-> max_results, order |-> order],
             FindFiles(tool_history, fs, Clock, pattern, path, max_results, order))

DoGetSystemInfo(outcome) ==
    ToolStep([op |-> "get_system_info", t |-> Clock],
             GetSystemInfo(tool_history, fs, Clock, outcome))

DoGetToolHistory(n) ==
    /\ call' = [op |-> "get_tool_history", n |-> n]
    /\ ret' = GetToolHistory(tool_history, n)
    /\ UNCHANGED <<memory_file, data, disk, faults, ops, replVars>>

DoClearToolHistory ==
    /\ tool_history' = ClearToolHistory(tool_history)
    /\ tool_calls' = << >>
    /\ call' = [op |-> "clear_tool_history"]
    /\ ret' = None
    /\ UNCHANGED <<memory_file, data, disk, faults, ops, fs, pc, running,
                   command_count, use_memory, llm_client, reads, event, printed>>

(* The files the tools are run on *)

NameA == << "a" >>
NameB == << "b" >>
NameD == << "d" >>
NameE == << "e" >>
NameG == << ".", "g" >>
NameH == << ".", "h" >>

\* a, d/a, d/.h, d/e/a and .g/a, the working directory above them
ToolTree ==
    (  << >>                   :> Dir
    @@ << NameA >>             :> File(<< "x", " ", "\n", "y", "\n", "z" >>)
    @@ << NameD >>             :> Dir
    @@ << NameD, NameA >>      :> File(<< "x" >>)
    @@ << NameD, NameH >>      :> File(<< "h" >>)
    @@ << NameD, NameE >>      :> Dir
    @@ << NameD, NameE, NameA >> :> File(<< >>)
    @@ << NameG >>             :> Dir
    @@ << NameG, NameA >>      :> File(<< "x" >>) )

PathA   == << "a" >>
PathD   == << "d" >>
PathDE  == << "d", "/", "e" >>
PathDEA == << "d", "/", "e", "/", "a" >>
PathN   == << "n" >>
PathHere == << "." >>

ToolIo == {"ok", "denied"}

(* One Tools object used again and again: the nine operations in turn, some  *)
(* calls failing, and the history cleared at most once                       *)

PathB == << "b" >>
PathC == << "c" >>
PathE == << "e" >>

\* The turn of the next call, and whether it is of an odd round
Turn == ops % 9
OddRound == (ops \div 9) % 2 = 1

InitHistory ==
    /\ memory_file = "mem"
    /\ disk = [p \in Paths |-> Absent]
    /\ \E t \in CreationReadings : data = LoadMemory(disk["mem"], t)
    /\ call = [op |-> "new"]
    /\ ret = None
    /\ ops = 0
    /\ faults = 0
    /\ pc = "start" /\ running = TRUE /\ command_count = 0
    /\ use_memory = TRUE /\ llm_client = "ok"
    /\ tool_history = << >>
    /\ tool_calls = << >>
    /\ fs = ToolTree
    /\ reads = 0
    /\ event = [kind |-> "none"] /\ printed = [msg |-> "none"]

NextHistory ==
    \/ /\ ops < MaxHistoryCalls /\ Turn = 0
       /\ DoExecuteShell(<< "x" >>, IF OddRound THEN "timeout" ELSE "ok")
    \/ /\ ops < MaxHistoryCalls /\ Turn = 1
       /\ DoWriteFile(PathB, << "x" >>, OddRound, "ok")
    \/ /\ ops < MaxHistoryCalls /\ Turn = 2
       /\ DoReadFile(IF OddRound THEN PathN ELSE PathB, None, "ok")
    \/ /\ ops < MaxHistoryCalls /\ Turn = 3
       /\ DoListDirectory(PathHere, OddRound, "ok")
    \/ /\ ops < MaxHistoryCalls /\ Turn = 4
       /\ DoCopyFile(PathB, PathC, IF OddRound THEN "denied" ELSE "ok")
    \/ /\ ops < MaxHistoryCalls /\ Turn = 5
       /\ DoMoveFile(PathC, PathE, "ok")
    \/ /\ ops < MaxHistoryCalls /\ Turn = 6
       /\ DoDeleteFile(PathE, FALSE, "ok")
    \/ /\ ops < MaxHistoryCalls /\ Turn = 7
       /\ DoFindFiles(<< "*" >>, PathHere, 2, "ascending")
    \/ /\ ops < MaxHistoryCalls /\ Turn = 8
       /\ DoGetSystemInfo(IF OddRound THEN "no_psutil" ELSE "ok")
    \/ \E n \in {1, 10} : call.op # "get_tool_history" /\ DoGetToolHistory(n)
    \/ ops >= 1 /\ Len(tool_calls) = ops /\ DoClearToolHistory

SpecHistory == InitHistory /\ [][NextHistory]_vars

(* The operations on files, called on the tree of ToolTree and on what they  *)
(* make of it                                                                *)

PathAB == << "a", "/", "b" >>
PathDB == << "d", "/", "b" >>

DeletePaths  == {PathA, PathD, PathDE, PathN}
FindPatterns == {<< "a" >>, << "*" >>, << "z" >>}
FindPaths    == {PathHere, PathD, PathN}
MaxResults   == {0, 1, 3}
IterOrders   == {"ascending", "descending"}

NextTools ==
    \/ \E filepath \in DeletePaths, force \in BOOLEAN, io \in ToolIo :
          ops < MaxToolOps /\ DoDeleteFile(filepath, force, io)
    \/ \E pattern \in FindPatterns, path \in FindPaths, max_results \in MaxResults,
          order \in IterOrders :
          ops < MaxToolOps /\ DoFindFiles(pattern, path, max_results, order)
    \/ \E filepath \in {PathDB, PathAB}, append \in BOOLEAN :
          ops < MaxToolOps /\ DoWriteFile(filepath, << "x" >>, append, "ok")
    \/ \E path \in {PathHere, PathA}, show_hidden \in BOOLEAN :
          ops < MaxToolOps /\ DoListDirectory(path, show_hidden, "ok")
    \/ \E dst \in {PathD, PathE} : ops < MaxToolOps /\ DoCopyFile(PathA, dst, "ok")
    \/ \E src \in {PathA, PathD} : ops < MaxToolOps /\ DoMoveFile(src, PathE, "ok")

SpecTools == InitHistory /\ [][NextTools]_vars

(* read_file on short and long files *)

NameK == << "k" >>
NameL == << "l" >>
PathK == << "k" >>
PathL == << "l" >>

\* A text of n characters in lines of seven
LongText(n) == [i \in 1..n |-> IF i % 8 = 0 THEN "\n" ELSE "x"]

\* a of three lines, the directory d, k of 5000 characters and l of 5001
ReadTree ==
    (  << >>        :> Dir
    @@ << NameA >>  :> File(<< "x", " ", "\n", "y", "\n", "z" >>)
    @@ << NameD >>  :> Dir
    @@ << NameK >>  :> File(LongText(ReadLimit))
    @@ << NameL >>  :> File(LongText(ReadLimit + 1)) )

ReadPaths    == {PathA, PathK, PathL}
MaxLinesArgs == {None, Some(0), Some(1), Some(5)}

InitRead ==
    /\ memory_file = "mem"
    /\ disk = [p \in Paths |-> Absent]
    /\ \E t \in CreationReadings : data = LoadMemory(disk["mem"], t)
    /\ call = [op |-> "new"]
    /\ ret = None
    /\ ops = 0
    /\ faults = 0
    /\ pc = "start" /\ running = TRUE /\ command_count = 0
    /\ use_memory = TRUE /\ llm_client = "ok"
    /\ tool_history = << >>
    /\ tool_calls = << >>
    /\ fs = ReadTree
    /\ reads = 0
    /\ event = [kind |-> "none"] /\ printed = [msg |-> "none"]

NextRead ==
    \/ \E filepath \in ReadPaths, max_lines \in MaxLinesArgs :
          ops < MaxReadOps /\ DoReadFile(filepath, max_lines, "ok")
    \/ \E filepath \in {PathD, PathN} :
          ops < MaxReadOps /\ DoReadFile(filepath, Some(1), "ok")
    \/ \E io \in {"denied", "undecodable"} :
          ops < MaxReadOps /\ DoReadFile(PathA, None, io)
    \/ \E filepath \in {PathA, PathK} :
          ops < MaxReadOps /\ DoWriteFile(filepath, << "y" >>, TRUE, "ok")

SpecRead == InitRead /\ [][NextRead]_vars

-----------------------------------------------------------------------------
(* The REPL (src/src/polo/repl.py), the chat of the agent                   *)
(* (src/src/polo/ai_agent.py) and the usage history of the tools            *)
(* (src/src/polo/tools.py)                                                  *)

\* str.strip(), for lines whose only whitespace is the space
RECURSIVE LStrip(_)
LStrip(s) == IF s # << >> /\ Head(s) = " " THEN LStrip(Tail(s)) ELSE s

RECURSIVE RStrip(_)
RStrip(s) ==
    IF s # << >> /\ s[Len(s)] = " " THEN RStrip(SubSeq(s, 1, Len(s) - 1)) ELSE s

Strip(s) == RStrip(LStrip(s))

\* s.split(" ", 1): one part when s has no space, else the text before the
\* first space and the text after it
SplitOnce(s) ==
    IF \E i \in 1..Len(s) : s[i] = " "
    THEN LET i == CHOOSE k \in 1..Len(s) :
                      s[k] = " " /\ \A j \in 1..(k - 1) : s[j] # " "
         IN  << SubSeq(s, 1, i - 1), SubSeq(s, i + 1, Len(s)) >>
    ELSE << s >>

\* not args, for an Optional[str]
Falsy(args) == args = None \/ args[1] = << >>

\* self.builtin_commands: the command as typed (lower-cased), its name as a
\* command type and the method it is bound to
builtin_commands ==
    (  << "h", "e", "l", "p" >> :> [name |-> "help", handler |-> "cmd_help"]
    @@ << "e", "x", "i", "t" >> :> [name |-> "exit", handler |-> "cmd_exit"]
    @@ << "q", "u", "i", "t" >> :> [name |-> "quit", handler |-> "cmd_exit"]
    @@ << "c", "l", "e", "a", "r" >> :> [name |-> "clear", handler |-> "cmd_clear"]
    @@ << "h", "i", "s", "t", "o", "r", "y" >> :> [name |-> "history", handler |-> "cmd_history"]
    @@ << "m", "e", "m", "o", "r", "y" >> :> [name |-> "memory", handler |-> "cmd_memory"]
    @@ << "s", "t", "a", "t", "s" >> :> [name |-> "stats", handler |-> "cmd_stats"]
    @@ << "t", "o", "o", "l", "s" >> :> [name |-> "tools", handler |-> "cmd_tools"]
    @@ << "a", "b", "o", "u", "t" >> :> [name |-> "about", handler |-> "cmd_about"] )

BuiltinNames == {builtin_commands[c].name : c \in DOMAIN builtin_commands}

BuiltinHandler(command_type) ==
    builtin_commands[CHOOSE c \in DOMAIN builtin_commands :
                         builtin_commands[c].name = command_type].handler

\* tool_mapping of _parse_tool_command
tool_mapping ==
    (  << "s", "h", "e", "l", "l" >> :> "tool_shell"
    @@ << "s", "h" >> :> "tool_shell"
    @@ << "r", "e", "a", "d" >> :> "tool_read"
    @@ << "c", "a", "t" >> :> "tool_read"
    @@ << "w", "r", "i", "t", "e" >> :> "tool_write"
    @@ << "e", "c", "h", "o" >> :> "tool_write"
    @@ << "l", "s" >> :> "tool_ls"
    @@ << "l", "i", "s", "t" >> :> "tool_ls"
    @@ << "f", "i", "n", "d" >> :> "tool_find"
    @@ << "s", "e", "a", "r", "c", "h" >> :> "tool_find"
    @@ << "c", "o", "p", "y" >> :> "tool_copy"
    @@ << "c", "p" >> :> "tool_copy"
    @@ << "m", "o", "v", "e" >> :> "tool_move"
    @@ << "m", "v" >> :> "tool_move"
    @@ << "d", "e", "l", "e", "t", "e" >> :> "tool_delete"
    @@ << "r", "m" >> :> "tool_delete"
    @@ << "i", "n", "f", "o" >> :> "tool_info"
    @@ << "s", "y", "s", "i", "n", "f", "o" >> :> "tool_info" )

ToolCommandTypes == {tool_mapping[c] : c \in DOMAIN tool_mapping}

\* command_type[5:] for the command types that start with "tool_"
ToolName(command_type) ==
    CASE command_type = "tool_shell"  -> "shell"
      [] command_type = "tool_read"   -> "read"
      [] command_type = "tool_write"  -> "write"
      [] command_type = "tool_ls"     -> "ls"
      [] command_type = "tool_find"   -> "find"
      [] command_type = "tool_copy"   -> "copy"
      [] command_type = "tool_move"   -> "move"
      [] command_type = "tool_delete" -> "delete"
      [] command_type = "tool_info"   -> "info"

\* _parse_tool_command: the text after "!"
ParseToolCommand(command) ==
    LET parts     == SplitOnce(command)
        tool_name == Lower(parts[1])
        args      == IF Len(parts) > 1 THEN Some(parts[2]) ELSE None
    IN  [command_type |-> IF tool_name \in DOMAIN tool_mapping
                          THEN tool_mapping[tool_name] ELSE "unknown_tool",
         args         |-> args]

\* _parse_command without lower(): the command is looked up as typed
ParseCommandCaseSensitive(line) ==
    LET user_input == Strip(line)
    IN  IF user_input = << >> THEN [command_type |-> "empty", args |-> None]
        ELSE IF Head(user_input) = "/"
        THEN LET parts   == SplitOnce(Tail(user_input))
                 command == parts[1]
                 args    == IF Len(parts) > 1 THEN Some(parts[2]) ELSE None
             IN  IF command \in DOMAIN builtin_commands
                 THEN [command_type |-> builtin_commands[command].name, args |-> args]
                 ELSE [command_type |-> "unknown_builtin", args |-> Some(command)]
        ELSE IF Head(user_input) = "!" THEN ParseToolCommand(Tail(user_input))
        ELSE [command_type |-> "chat", args |-> Some(user_input)]

\* _parse_command
ParseCommand(line) ==
    LET user_input == Strip(line)
    IN  IF user_input = << >> THEN [command_type |-> "empty", args |-> None]
        ELSE IF Head(user_input) = "/"
        THEN LET parts   == SplitOnce(Tail(user_input))
                 command == Lower(parts[1])
                 args    == IF Len(parts) > 1 THEN Some(parts[2]) ELSE None
             IN  IF command \in DOMAIN builtin_commands
                 THEN [command_type |-> builtin_commands[command].name, args |-> args]
                 ELSE [command_type |-> "unknown_builtin", args |-> Some(command)]
        ELSE IF Head(user_input) = "!" THEN ParseToolCommand(Tail(user_input))
        ELSE [command_type |-> "chat", args |-> Some(user_input)]

\* get_conversation_stats: the statistics (of which the model keeps the
\* total), or the exception raised on a document that is not a list of
\* records with user, assistant and timestamp
GetConversationStats(d) ==
    LET c == d["conversations"]
    IN  IF c.items = << >> THEN [total |-> 0]
        ELSE IF c.ty # "list" THEN Raised("TypeError")
        ELSE IF \E i \in 1..Len(c.items) :
                    ~({"user", "assistant"} \subseteq DOMAIN c.items[i])
             THEN Raised("KeyError")
        ELSE IF \/ "timestamp" \notin DOMAIN c.items[1]
                \/ "timestamp" \notin DOMAIN c.items[Len(c.items)]
             THEN Raised("KeyError")
        ELSE [total |-> Len(c.items)]

\* The labels the parts of the context begin with (the prefixes of the
\* f-strings of get_context_string), each one token of the text
UserLabel == << "user: " >>
AssistantLabel == << "assistant: " >>

\* "\n".join(parts)
RECURSIVE JoinLines(_)
JoinLines(parts) ==
    IF parts = << >> THEN << >>
    ELSE IF Len(parts) = 1 THEN parts[1]
    ELSE parts[1] \o << "\n" >> \o JoinLines(Tail(parts))

\* get_context_string(n): the text of a user part and an assistant part for
\* each of the recent records, joined by "\n", or the exception raised
GetContextString(d, n) ==
    LET recent == GetRecentConversations(d, n)
    IN  IF recent = << >> THEN [text |-> << >>]
        ELSE IF d["conversations"].ty # "list" THEN Raised("TypeError")
        ELSE IF \E i \in 1..Len(recent) :
                    ~({"user", "assistant"} \subseteq DOMAIN recent[i])
             THEN Raised("KeyError")
        ELSE [text |->
                 JoinLines([k \in 1..(2 * Len(recent)) |->
                     IF k % 2 = 1
                     THEN UserLabel \o recent[(k + 1) \div 2]["user"]
                     ELSE AssistantLabel \o recent[k \div 2]["assistant"]])]

\* What a command did: st is the state it left, response what it returned
\* (None, or a message), raised whether an exception left it, called whether
\* a method of Tools ran, added whether add_conversation was called and ret
\* what that call returned
Outcome(st, response, raised, called, added, ret_) ==
    [data |-> st.data, disk |-> st.disk, tool_history |-> st.tool_history,
     fs |-> st.fs, running |-> st.running, response |-> response, raised |-> raised,
     called |-> called, added |-> added, ret |-> ret_]

Text(chars) == Some([msg |-> "text", text |-> chars])
Message(msg) == Some([msg |-> msg])

\* cmd_exit: running is cleared first, the farewell is built after it
CmdExit(st, env) ==
    LET stopped == [st EXCEPT !.running = FALSE]
    IN  IF env.use_memory
        THEN LET stats == GetConversationStats(st.data)
             IN  IF IsRaised(stats)
                 THEN Outcome(stopped, None, TRUE, FALSE, FALSE, FALSE)
                 ELSE Outcome(stopped,
                              Some([msg |-> "goodbye",
                                    shows |-> [command_count |-> env.command_count,
                                               total |-> stats.total]]),
                              FALSE, FALSE, FALSE, FALSE)
        ELSE Outcome(stopped,
                     Some([msg |-> "goodbye",
                           shows |-> [command_count |-> env.command_count]]),
                     FALSE, FALSE, FALSE, FALSE)

\* cmd_memory
CmdMemory(st, env) ==
    IF ~env.use_memory
    THEN Outcome(st, Message("memory_disabled"), FALSE, FALSE, FALSE, FALSE)
    ELSE LET stats  == GetConversationStats(st.data)
             recent == GetRecentConversations(st.data, 5)
         IN  IF IsRaised(stats) THEN Outcome(st, None, TRUE, FALSE, FALSE, FALSE)
             ELSE IF \E i \in 1..Len(recent) : "timestamp" \notin DOMAIN recent[i]
                  THEN Outcome(st, None, TRUE, FALSE, FALSE, FALSE)
             ELSE Outcome(st,
                          Some([msg |-> "memory", total |-> stats.total,
                                recent |-> [i \in 1..Len(recent) |-> recent[i]["user"]]]),
                          FALSE, FALSE, FALSE, FALSE)

\* cmd_stats: the tool uses it reports are those of get_tool_history()
CmdStats(st, env) ==
    Outcome(st,
            Some([msg |-> "stats", command_count |-> env.command_count,
                  memory |-> env.use_memory,
                  tool_uses |-> Len(GetToolHistory(st.tool_history, 10))]),
            FALSE, FALSE, FALSE, FALSE)

\* cmd_tools
CmdTools(st, env) ==
    LET recent == GetToolHistory(st.tool_history, 10)
    IN  IF recent = << >>
        THEN Outcome(st, Message("no_tool_history"), FALSE, FALSE, FALSE, FALSE)
        ELSE Outcome(st,
                     Some([msg |-> "tools",
                           uses |-> [i \in 1..Len(recent) |-> recent[i].tool]]),
                     FALSE, FALSE, FALSE, FALSE)

\* The method a builtin is bound to; cmd_clear returns None
ExecuteBuiltin(handler, st, env) ==
    CASE handler = "cmd_exit"    -> CmdExit(st, env)
      [] handler = "cmd_memory"  -> CmdMemory(st, env)
      [] handler = "cmd_stats"   -> CmdStats(st, env)
      [] handler = "cmd_tools"   -> CmdTools(st, env)
      [] handler = "cmd_clear"   -> Outcome(st, None, FALSE, FALSE, FALSE, FALSE)
      [] handler = "cmd_help"    -> Outcome(st, Message("help"), FALSE, FALSE, FALSE, FALSE)
      [] handler = "cmd_history" -> Outcome(st, Message("history"), FALSE, FALSE, FALSE, FALSE)
      [] handler = "cmd_about"   -> Outcome(st, Message("about"), FALSE, FALSE, FALSE, FALSE)

\* The check of the arguments in _execute_tool_command: the tool and the
\* parameters it is called with, or the message the command is rejected with
ToolCall(tool_name, args) ==
    LET parts == IF args = None THEN << >> ELSE SplitOnce(args[1])
    IN  CASE tool_name = "shell" ->
                IF Falsy(args) THEN [rejected |-> "no_command"]
                ELSE [tool |-> "shell", params |-> [command |-> args[1], cwd |-> None]]
          [] tool_name = "read" ->
                IF Falsy(args) THEN [rejected |-> "no_path"]
                ELSE [tool |-> "read_file",
                      params |-> [filepath |-> args[1], max_lines |-> None]]
          [] tool_name = "write" ->
                IF Falsy(args) THEN [rejected |-> "no_path_and_content"]
                ELSE IF Len(parts) < 2 THEN [rejected |-> "format"]
                ELSE [tool |-> "write_file",
                      params |-> [filepath |-> parts[1], content |-> parts[2],
                                  append |-> FALSE]]
          [] tool_name = "ls" ->
                [tool |-> "list_directory",
                 params |-> [path |-> IF Falsy(args) THEN << "." >> ELSE args[1],
                             show_hidden |-> FALSE]]
          [] tool_name = "find" ->
                IF Falsy(args) THEN [rejected |-> "no_pattern"]
                ELSE [tool |-> "find_files",
                      params |-> [pattern |-> args[1], path |-> << "." >>,
                                  max_results |-> 50]]
          [] tool_name = "copy" ->
                IF Falsy(args) THEN [rejected |-> "no_src_and_dst"]
                ELSE IF Len(parts) < 2 THEN [rejected |-> "format"]
                ELSE [tool |-> "copy_file", params |-> [src |-> parts[1], dst |-> parts[2]]]
          [] tool_name = "move" ->
                IF Falsy(args) THEN [rejected |-> "no_src_and_dst"]
                ELSE IF Len(parts) < 2 THEN [rejected |-> "format"]
                ELSE [tool |-> "move_file", params |-> [src |-> parts[1], dst |-> parts[2]]]
          [] tool_name = "delete" ->
                IF Falsy(args) THEN [rejected |-> "no_path"]
                ELSE [tool |-> "delete_file",
                      params |-> [filepath |-> args[1], force |-> FALSE]]
          [] tool_name = "info" ->
                [tool |-> "get_system_info", params |-> EmptyDict]

\* The method of Tools a tool command calls, with the defaults of the
\* parameters it does not pass; result is what the operating system lets
\* the operation do
RunTool(tc, history, tree, t, result) ==
    LET a == tc.params
    IN  CASE tc.tool = "shell" ->
                ExecuteShell(history, tree, t, a.command, result)
          [] tc.tool = "read_file" ->
                ReadFile(history, tree, t, a.filepath, a.max_lines, result)
          [] tc.tool = "write_file" ->
                WriteFile(history, tree, t, a.filepath, a.content, a.append, result)
          [] tc.tool = "list_directory" ->
                ListDirectory(history, tree, t, a.path, a.show_hidden, result)
          [] tc.tool = "find_files" ->
                FindFiles(history, tree, t, a.pattern, a.path, a.max_results, "ascending")
          [] tc.tool = "copy_file" ->
                CopyFile(history, tree, t, a.src, a.dst, result)
          [] tc.tool = "move_file" ->
                MoveFile(history, tree, t, a.src, a.dst, result)
          [] tc.tool = "delete_file" ->
                DeleteFile(history, tree, t, a.filepath, a.force, result)
          [] tc.tool = "get_system_info" ->
                GetSystemInfo(history, tree, t, result)

\* _execute_tool_command that notes the usage of a tool before it checks the
\* arguments
ExecuteToolCommandNotesFirst(tool_name, args, original_input, st, env) ==
    LET tc == ToolCall(tool_name, args)
    IN  IF "rejected" \in DOMAIN tc
        THEN Outcome([st EXCEPT !.tool_history =
                                   Append(@, [tool |-> tool_name, timestamp |-> env.t])],
                     Some([msg |-> "rejected", why |-> tc.rejected]),
                     FALSE, FALSE, FALSE, FALSE)
        ELSE
            LET done     == RunTool(tc, st.tool_history, st.fs, env.t, env.result)
                response == IF tool_name = "shell"
                            THEN [executed |-> args[1], result |-> done.report]
                            ELSE done.report
                after    == [st EXCEPT !.tool_history = done.tool_history,
                                       !.fs = done.fs]
            IN  IF env.use_memory
                THEN LET r == AddConversation(st.data, st.disk, env.memory_file, env.t,
                                              original_input, << response >>,
                                              Some([type |-> "tool_usage",
                                                    tool |-> tool_name]),
                                              env.io)
                     IN  Outcome([after EXCEPT !.data = r.data, !.disk = r.disk],
                                 Text(response), FALSE, TRUE, TRUE, r.ret)
                ELSE Outcome(after, Text(response), FALSE, TRUE, FALSE, FALSE)

\* _execute_tool_command: a rejected command returns before the tool and the
\* store are reached; else the tool runs and returns its report, and the
\* exchange is added to the store when there is one, the report standing
\* as one token for the text the tool returned
ExecuteToolCommand(tool_name, args, original_input, st, env) ==
    LET tc == ToolCall(tool_name, args)
    IN  IF "rejected" \in DOMAIN tc
        THEN Outcome(st, Some([msg |-> "rejected", why |-> tc.rejected]),
                     FALSE, FALSE, FALSE, FALSE)
        ELSE
            LET done     == RunTool(tc, st.tool_history, st.fs, env.t, env.result)
                response == IF tool_name = "shell"
                            THEN [executed |-> args[1], result |-> done.report]
                            ELSE done.report
                after    == [st EXCEPT !.tool_history = done.tool_history,
                                       !.fs = done.fs]
            IN  IF env.use_memory
                THEN LET r == AddConversation(st.data, st.disk, env.memory_file, env.t,
                                              original_input, << response >>,
                                              Some([type |-> "tool_usage",
                                                    tool |-> tool_name]),
                                              env.io)
                     IN  Outcome([after EXCEPT !.data = r.data, !.disk = r.disk],
                                 Text(response), FALSE, TRUE, TRUE, r.ret)
                ELSE Outcome(after, Text(response), FALSE, TRUE, FALSE, FALSE)

\* What a chat did: the outcome, with the context text that was handed to the
\* backend
Asked(outcome, context) == outcome @@ [context |-> context]

\* AIAgent.chat that adds the exchange to the store before it asks the backend
AgentChatAddsFirst(user_input, st, env) ==
    LET r       == IF env.use_memory
                   THEN AddConversation(st.data, st.disk, env.memory_file, env.t,
                                        user_input, env.reply, None, env.io)
                   ELSE [data |-> st.data, disk |-> st.disk, ret |-> FALSE]
        context == IF env.use_memory THEN GetContextString(r.data, 3)
                   ELSE [text |-> << >>]
    IN  IF IsRaised(context) THEN Outcome(st, None, TRUE, FALSE, FALSE, FALSE)
        ELSE IF env.llm_client = "unset"
             THEN Outcome(st, None, TRUE, FALSE, FALSE, FALSE)
        ELSE IF env.use_memory
             THEN Asked(Outcome([st EXCEPT !.data = r.data, !.disk = r.disk],
                                Text(env.reply), FALSE, FALSE, TRUE, r.ret),
                        context.text)
        ELSE Asked(Outcome(st, Text(env.reply), FALSE, FALSE, FALSE, FALSE), context.text)

\* AIAgent.chat with _generate_response: the context is rendered, the
\* backend is asked (an agent whose backend could not be constructed has no
\* llm_client attribute), and the exchange is added to the store afterwards
AgentChat(user_input, st, env) ==
    LET context == IF env.use_memory THEN GetContextString(st.data, 3)
                   ELSE [text |-> << >>]
    IN  IF IsRaised(context) THEN Outcome(st, None, TRUE, FALSE, FALSE, FALSE)
        ELSE IF env.llm_client = "unset"
             THEN Outcome(st, None, TRUE, FALSE, FALSE, FALSE)
        ELSE IF env.use_memory
             THEN LET r == AddConversation(st.data, st.disk, env.memory_file, env.t,
                                           user_input, env.reply, None, env.io)
                  IN  Asked(Outcome([st EXCEPT !.data = r.data, !.disk = r.disk],
                                    Text(env.reply), FALSE, FALSE, TRUE, r.ret),
                            context.text)
        ELSE Asked(Outcome(st, Text(env.reply), FALSE, FALSE, FALSE, FALSE), context.text)

\* _execute_chat: an exception of the agent becomes a message
ExecuteChat(user_input, st, env) ==
    LET r == AgentChat(user_input, st, env)
    IN  IF r.raised THEN [r EXCEPT !.raised = FALSE, !.response = Message("chat_error")]
        ELSE [r EXCEPT !.response = Text(<< "@" >> \o r.response[1].text)]

\* _execute_command
ExecuteCommand(command_type, args, original_input, st, env) ==
    IF command_type \in BuiltinNames
    THEN ExecuteBuiltin(BuiltinHandler(command_type), st, env)
    ELSE IF command_type \in ToolCommandTypes
    THEN ExecuteToolCommand(ToolName(command_type), args, original_input, st, env)
    ELSE IF command_type = "chat" THEN ExecuteChat(original_input, st, env)
    ELSE IF command_type = "unknown_builtin"
    THEN Outcome(st, Some([msg |-> "unknown_builtin", name |-> args]),
                 FALSE, FALSE, FALSE, FALSE)
    ELSE IF command_type = "unknown_tool"
    THEN Outcome(st, Some([msg |-> "unknown_tool", name |-> args]),
                 FALSE, FALSE, FALSE, FALSE)
    ELSE IF command_type = "empty"
    THEN Outcome(st, None, FALSE, FALSE, FALSE, FALSE)
    ELSE Outcome(st, Message("unknown_command_type"), FALSE, FALSE, FALSE, FALSE)

(* The inputs of the REPL *)

\* Lines the user types: builtins, tool commands with and without their
\* arguments, unknown names, and chat messages
ReplLines ==
    { << "/", "e", "x", "i", "t" >>,
      << "/", "Q", "U", "I", "T", " ", "n", "o", "w" >>,
      << "/", "m", "e", "m", "o", "r", "y" >>,
      << "/", "n", "o", "p", "e" >>,
      << "!", "l", "s" >>,
      << "!", "S", "H", " ", "x" >>,
      << "!", "r", "e", "a", "d" >>,
      << "!", "w", "r", "i", "t", "e", " ", "f" >>,
      << "!", "e", "c", "h", "o", " ", "f", " ", "c" >>,
      << "!", "z", "a", "p", " ", "x" >>,
      << " ", "e", "x", "i", "t", " " >> }

BlankLines == { << >>, << " " >> }

\* What the operating system lets a tool do, and what the backend replies
ToolResults == { "ok" }
Replies == { << "y", "o" >> }

\* The memory file a REPL is started on
ReplFiles ==
    { Absent, WellFormedFile,
      JsonDump(Document(<< Record(1, IsoFormat([sec |-> 0, us |-> 1]), << "x" >>, << "a", "B" >>),
                           Record(2, IsoFormat([sec |-> 0, us |-> 2]), << "h" >>, << "i" >>) >>)),
      JsonFile([ty |-> "dict",
                items |-> [conversations |-> PyStr(<< "a", "b" >>)]]) }

\* Lines to classify: padding, a leading character or none, a name in either
\* case, and a remainder or none
Pads == { << >>, << " " >> }
Leads == { << >>, << "/" >>, << "!" >> }
Names ==
    { << >>, << "e", "x", "i", "t" >>, << "E", "x", "I", "T" >>, << "q", "u", "i", "t" >>,
      << "m", "v" >>, << "M", "V" >>, << "c", "a", "t" >>, << "n", "o", "p", "e" >> }
Rests == { << >>, << " " >>, << " ", "a", " ", "b" >>, << " ", " ", "a" >> }
ParseLines ==
    { pre \o lead \o name \o rest \o post :
        pre \in Pads, lead \in Leads, name \in Names, rest \in Rests, post \in Pads }

\* _parse_command called on a line
DoParseCommand(line) ==
    /\ ret' = ParseCommand(line)
    /\ call' = [op |-> "parse", line |-> line]
    /\ ops' = ops + 1
    /\ UNCHANGED <<memory_file, data, disk, faults, replVars>>

NextParse == \E line \in ParseLines : ops < MaxOps /\ DoParseCommand(line)

SpecParse == InitFresh /\ [][NextParse]_vars

(* PoloREPL.run *)

\* _show_banner, before the loop: with a store whose statistics cannot be
\* computed the exception leaves run()
ShowBanner ==
    /\ pc = "start"
    /\ IF use_memory /\ IsRaised(GetConversationStats(data))
       THEN /\ pc' = "crashed"
            /\ printed' = [msg |-> "traceback"]
       ELSE /\ pc' = "running"
            /\ printed' = [msg |-> "banner"]
    /\ event' = [kind |-> "banner"]
    /\ UNCHANGED <<memVars, fs, tool_calls, running, command_count, use_memory, llm_client,
                   tool_history, reads>>

\* input() returns a line that is empty after strip(): continue
ReadEmptyLine(line) ==
    /\ pc = "running"
    /\ Strip(line) = << >>
    /\ reads' = reads + 1
    /\ event' = [kind |-> "empty"]
    /\ UNCHANGED <<memVars, fs, tool_calls, pc, running, command_count, use_memory, llm_client,
                   tool_history, printed>>

\* One iteration that reads a command and executes it; the loop ends when
\* the command has cleared running
ReadLine(line, t, io, result, reply) ==
    /\ pc = "running"
    /\ LET user_input == Strip(line)
           parsed     == ParseCommand(user_input)
           st         == [data |-> data, disk |-> disk, tool_history |-> tool_history,
                          fs |-> fs, running |-> running]
           env        == [use_memory |-> use_memory, memory_file |-> memory_file,
                          llm_client |-> llm_client, command_count |-> command_count + 1,
                          t |-> t, io |-> io, result |-> result, reply |-> reply]
       IN  \E out \in {ExecuteCommand(parsed.command_type, parsed.args, user_input,
                                       st, env)} :
           /\ user_input # << >>
           /\ IF out.added /\ IsListStore(data)
              THEN Environment(io, memory_file)
              ELSE io = "ok" /\ faults' = faults
           /\ command_count' = command_count + 1
           /\ data' = out.data
           /\ disk' = out.disk
           /\ tool_history' = out.tool_history
           /\ fs' = out.fs
           /\ tool_calls' = IF out.called
                            THEN Append(tool_calls,
                                        [op |-> ToolCall(ToolName(parsed.command_type),
                                                         parsed.args).tool,
                                         t |-> t])
                            ELSE tool_calls
           /\ running' = out.running
           /\ pc' = IF out.running THEN "running" ELSE "stopped"
           /\ printed' = IF out.raised THEN [msg |-> "error"]
                         ELSE IF out.response = None THEN [msg |-> "blank"]
                         ELSE out.response[1]
           /\ event' = [kind |-> "line", line |-> user_input,
                        command_type |-> parsed.command_type, args |-> parsed.args,
                        before |-> data, called |-> out.called, added |-> out.added,
                        raised |-> out.raised,
                        context |-> IF "context" \in DOMAIN out THEN Some(out.context)
                                    ELSE None]
           /\ IF out.added
              THEN /\ call' = [op |-> "add", io |-> io]
                   /\ ret' = out.ret
                   /\ ops' = ops + 1
              ELSE UNCHANGED <<call, ret, ops>>
    /\ reads' = reads + 1
    /\ UNCHANGED <<memory_file, use_memory, llm_client>>

\* _get_prompt raises (os.getcwd() in a directory that was removed): caught
\* by except Exception, the loop goes on
PromptFails ==
    /\ pc = "running"
    /\ event' = [kind |-> "prompt_error"]
    /\ printed' = [msg |-> "error"]
    /\ UNCHANGED <<memVars, fs, tool_calls, pc, running, command_count, use_memory, llm_client,
                   tool_history, reads>>

\* ReadInterrupt of a loop without except KeyboardInterrupt: the interrupt
\* ends the loop
ReadInterruptUncaught ==
    /\ pc = "running"
    /\ reads' = reads + 1
    /\ pc' = "stopped"
    /\ event' = [kind |-> "interrupt"]
    /\ printed' = [msg |-> "traceback"]
    /\ UNCHANGED <<memVars, fs, tool_calls, running, command_count, use_memory, llm_client,
                   tool_history>>

\* Ctrl+C at the prompt: except KeyboardInterrupt prints a hint, the loop goes on
ReadInterrupt ==
    /\ pc = "running"
    /\ reads' = reads + 1
    /\ event' = [kind |-> "interrupt"]
    /\ printed' = [msg |-> "interrupt_hint"]
    /\ UNCHANGED <<memVars, fs, tool_calls, pc, running, command_count, use_memory, llm_client,
                   tool_history>>

\* ReadEOF of a handler without break: the farewell is printed, the loop
\* goes on
ReadEOFWithoutBreak ==
    /\ pc = "running"
    /\ reads' = reads + 1
    /\ event' = [kind |-> "eof"]
    /\ printed' = [msg |-> "goodbye", shows |-> EmptyDict]
    /\ UNCHANGED <<memVars, fs, tool_calls, pc, running, command_count, use_memory,
                   llm_client, tool_history>>

\* Ctrl+D at the prompt: except EOFError prints the farewell and breaks
ReadEOF ==
    /\ pc = "running"
    /\ reads' = reads + 1
    /\ pc' = "stopped"
    /\ event' = [kind |-> "eof"]
    /\ printed' = [msg |-> "goodbye", shows |-> EmptyDict]
    /\ UNCHANGED <<memVars, fs, tool_calls, running, command_count, use_memory, llm_client,
                   tool_history>>

\* PoloREPL.__init__: with or without a store, on a memory file of any
\* content, with a backend that could or could not be constructed
InitRepl ==
    /\ memory_file = "mem"
    /\ use_memory \in BOOLEAN
    /\ llm_client \in {"ok", "unset"}
    /\ IF use_memory
       THEN /\ \E f \in ReplFiles : disk = [p \in Paths |-> IF p = "mem" THEN f ELSE Absent]
            /\ \E t \in CreationReadings : data = LoadMemory(disk["mem"], t)
       ELSE /\ disk = [p \in Paths |-> IF p = "mem" THEN WellFormedFile ELSE Absent]
            /\ data = None
    /\ call = [op |-> "load", path |-> "mem"]
    /\ ret = data
    /\ ops = 0
    /\ faults = 0
    /\ pc = "start" /\ running = TRUE /\ command_count = 0
    /\ tool_history = << >>
    /\ reads = 0
    /\ fs = ToolTree
    /\ tool_calls = << >>
    /\ event = [kind |-> "none"] /\ printed = [msg |-> "none"]

NextRepl ==
    \/ ShowBanner
    \/ \E line \in BlankLines : reads < MaxLines /\ ReadEmptyLine(line)
    \/ \E line \in ReplLines, t \in CreationReadings, io \in IoOutcomes,
          result \in ToolResults, reply \in Replies :
          reads < MaxLines /\ ReadLine(line, t, io, result, reply)
    \/ reads < MaxLines /\ PromptFails
    \/ reads < MaxLines /\ ReadInterrupt
    \/ reads < MaxLines /\ ReadEOF

SpecRepl == InitRepl /\ [][NextRepl]_vars

(* AIAgent.chat called on an agent as PoloREPL constructs it *)

\* What the backend's chat returns: a reply, or the error text it makes of
\* any exception of the API call
ChatReplies == Replies \cup { << "!", "e" >> }

\* One call of AIAgent.chat: ret is the reply, or the exception that left it
DoAgentChat(user_input, t, io, reply) ==
    LET st  == [data |-> data, disk |-> disk, tool_history |-> tool_history,
                fs |-> fs, running |-> running]
        env == [use_memory |-> use_memory, memory_file |-> memory_file,
                llm_client |-> llm_client, command_count |-> command_count,
                t |-> t, io |-> io, result |-> "ok", reply |-> reply]
    IN  \E out \in {AgentChat(user_input, st, env)} :
           /\ IF out.added /\ IsListStore(data)
              THEN Environment(io, memory_file)
              ELSE io = "ok" /\ faults' = faults
           /\ data' = out.data
           /\ disk' = out.disk
           /\ call' = [op |-> "chat", user_input |-> user_input, before |-> data]
           /\ ret' = IF out.raised THEN Raised("Exception")
                     ELSE [reply |-> out.response[1].text]
           /\ ops' = ops + 1
           /\ UNCHANGED <<memory_file, replVars>>

NextChat ==
    \E user_input \in UserTexts, t \in CreationReadings, io \in IoOutcomes,
       reply \in ChatReplies :
       ops < MaxOps /\ DoAgentChat(user_input, t, io, reply)

SpecChat == InitRepl /\ [][NextChat]_vars

(* The one-shot subcommands (src/src/polo/commands.py) run by main           *)
(* (src/src/polo/cli.py): each run is a process of its own, with a new Tools *)
(* object and a Memory loaded from the default file; ret is the exit code,   *)
(* with what the operation reported                                          *)

\* The reports of the tools that tell a success
OkStatuses == {"ok", "ok_file", "ok_directory"}

\* One run of main: the exit code and whether the operation failed
Exit(code, failed, report) == [code |-> code, failed |-> failed, report |-> report]

\* The state a run of a tool subcommand leaves
ToolRun(c, done) ==
    /\ tool_history' = done.tool_history
    /\ fs' = done.fs
    /\ tool_calls' = << [op |-> c.tool, t |-> Clock] >>
    /\ call' = c
    /\ ret' = Exit(0, done.report.status \notin OkStatuses, done.report)
    /\ ops' = ops + 1
    /\ UNCHANGED <<memory_file, data, disk, faults, pc, running, command_count,
                   use_memory, llm_client, reads, event, printed>>

\* cmd_ask: AIAgent(memory=memory) is called without a model name, and
\* __init__ raises on model_name.lower() before cmd_ask's try block is
\* entered; main catches the exception and returns 1
MainAsk(context, t) ==
    /\ data' = IF context THEN LoadMemory(disk[memory_file], t) ELSE data
    /\ call' = [op |-> "main", command |-> "ask", context |-> context]
    /\ ret' = Exit(1, TRUE, Raised("AttributeError"))
    /\ ops' = ops + 1
    /\ UNCHANGED <<memory_file, disk, faults, replVars>>

\* cmd_shell
MainShell(command, outcome) ==
    ToolRun([op |-> "main", command |-> "shell", tool |-> "shell", args |-> command],
            ExecuteShell(<< >>, fs, Clock, command, outcome))

\* cmd_file, read
MainFileRead(path, lines, io) ==
    ToolRun([op |-> "main", command |-> "file read", tool |-> "read_file",
             path |-> path, lines |-> lines],
            ReadFile(<< >>, fs, Clock, path, lines, io))

\* cmd_file, write with the content on the command line
MainFileWrite(path, content, append, io) ==
    /\ content # << >>
    /\ ToolRun([op |-> "main", command |-> "file write", tool |-> "write_file",
                path |-> path, append |-> append],
               WriteFile(<< >>, fs, Clock, path, content, append, io))

\* cmd_file, list
MainFileList(path, all, io) ==
    ToolRun([op |-> "main", command |-> "file list", tool |-> "list_directory",
             path |-> path, all |-> all],
            ListDirectory(<< >>, fs, Clock, path, all, io))

\* The loop of cmd_memory's show raises on what is not a record with
\* timestamp, user and assistant
ShowRaises(d, recent) ==
    LET c == d["conversations"]
    IN  /\ c.items # << >>
        /\ \/ c.ty # "list"
           \/ LET shown == LastSlice(c.items, recent)
              IN  \E i \in 1..Len(shown) :
                     ~({"timestamp", "user", "assistant"} \subseteq DOMAIN shown[i])

\* cmd_memory, show
MainMemoryShow(recent, t) ==
    /\ data' = LoadMemory(disk[memory_file], t)
    /\ call' = [op |-> "main", command |-> "memory show", recent |-> recent]
    /\ ret' = IF ShowRaises(data', recent)
              THEN Exit(1, TRUE, Raised("Exception"))
              ELSE Exit(0, FALSE, [status |-> "ok"])
    /\ ops' = ops + 1
    /\ UNCHANGED <<memory_file, disk, faults, replVars>>

\* cmd_memory, clear: without --confirm the user is asked first
MainMemoryClear(confirmed, t, io) ==
    /\ call' = [op |-> "main", command |-> "memory clear", confirmed |-> confirmed,
                io |-> io]
    /\ ops' = ops + 1
    /\ IF confirmed
       THEN /\ Environment(io, memory_file)
            /\ LET r == ClearMemory(LoadMemory(disk[memory_file], t), disk,
                                    memory_file, t, io)
               IN  /\ data' = r.data
                   /\ disk' = r.disk
                   /\ ret' = Exit(0, ~r.ret, [status |-> IF r.ret THEN "ok" ELSE "error"])
       ELSE /\ io = "ok"
            /\ data' = LoadMemory(disk[memory_file], t)
            /\ ret' = Exit(0, FALSE, [status |-> "cancelled"])
            /\ UNCHANGED <<disk, faults>>
    /\ UNCHANGED <<memory_file, replVars>>

\* cmd_memory, export
MainMemoryExport(t, io) ==
    /\ io # "backup_fails"
    /\ Environment(io, memory_file)
    /\ data' = LoadMemory(disk[memory_file], t)
    /\ LET r == ExportMemory(data', disk, ExportPath, io)
       IN  /\ disk' = r.disk
           /\ ret' = Exit(0, ~r.ok, [status |-> IF r.ok THEN "ok" ELSE "error"])
    /\ call' = [op |-> "main", command |-> "memory export", io |-> io]
    /\ ops' = ops + 1
    /\ UNCHANGED <<memory_file, replVars>>

InitCli ==
    /\ memory_file = "mem"
    /\ \E f \in ReplFiles : disk = [p \in Paths |-> IF p = "mem" THEN f ELSE Absent]
    /\ \E t \in CreationReadings : data = LoadMemory(disk["mem"], t)
    /\ call = [op |-> "new"]
    /\ ret = None
    /\ ops = 0
    /\ faults = 0
    /\ pc = "start" /\ running = TRUE /\ command_count = 0
    /\ use_memory = TRUE /\ llm_client = "unset"
    /\ tool_history = << >>
    /\ tool_calls = << >>
    /\ fs = ToolTree
    /\ reads = 0
    /\ event = [kind |-> "none"] /\ printed = [msg |-> "none"]

NextCli ==
    \/ \E context \in BOOLEAN, t \in CreationReadings :
          ops < MaxCliRuns /\ MainAsk(context, t)
    \/ \E outcome \in {"ok", "nonzero", "timeout"} :
          ops < MaxCliRuns /\ MainShell(<< "x" >>, outcome)
    \/ \E path \in {PathA, PathD, PathN}, lines \in {None, Some(1)}, io \in ToolIo :
          ops < MaxCliRuns /\ MainFileRead(path, lines, io)
    \/ \E path \in {PathDB, PathAB}, append \in BOOLEAN :
          ops < MaxCliRuns /\ MainFileWrite(path, << "y" >>, append, "ok")
    \/ \E path \in {PathHere, PathN}, all \in BOOLEAN :
          ops < MaxCliRuns /\ MainFileList(path, all, "ok")
    \/ \E recent \in {1, 10}, t \in CreationReadings :
          ops < MaxCliRuns /\ MainMemoryShow(recent, t)
    \/ \E confirmed \in BOOLEAN, t \in CreationReadings, io \in IoOutcomes :
          ops < MaxCliRuns /\ MainMemoryClear(confirmed, t, io)
    \/ \E t \in CreationReadings, io \in IoOutcomes :
          ops < MaxCliRuns /\ MainMemoryExport(t, io)

SpecCli == InitCli /\ [][NextCli]_vars

(* get_context_string on the stores add_conversation makes *)

\* Replies of one line and of two
ContextReplies == { << "a", "B" >>, << "a", "\n", "b" >> }
ContextNs == {0, 1, 2, 3}

DoGetContextString(n) ==
    /\ ret' = GetContextString(data, n)
    /\ call' = [op |-> "get_context", n |-> n]
    /\ ops' = ops + 1
    /\ UNCHANGED <<memory_file, data, disk, faults, replVars>>

NextContext ==
    \/ \E t \in Readings, u \in UserTexts, a \in ContextReplies :
          ops < MaxOps /\ DoAddConversation(t, u, a, None, "ok")
    \/ \E n \in ContextNs : ops < MaxOps /\ DoGetContextString(n)

SpecContext == Init /\ [][NextContext]_vars

(* A store near the retention cap: add_conversation, import_memory and       *)
(* clear_memory on a memory file of 999 records, with a file of two records  *)
(* of another store to import                                                *)

\* The document add_conversation leaves after n calls on a new store, the
\* clock one second further at each call
FilledDocument(n) ==
    Document([i \in 1..n |->
                 Record(i, IsoFormat([sec |-> i, us |-> 0]), CapText(i), << "a", "B" >>)])

\* Two records no store of FilledDocument holds
RetainImport ==
    JsonDump(Document(<< Foreign(1, IsoFormat([sec |-> 0, us |-> 1]), << "x" >>, << "a", "B" >>),
                         Foreign(2, IsoFormat([sec |-> 2000, us |-> 0]), << "x" >>, << "a", "B" >>) >>))

InitRetain ==
    /\ memory_file = "mem"
    /\ disk = [p \in Paths |-> IF p = "mem"
                               THEN JsonDump(FilledDocument(MaxConversations - 1))
                               ELSE IF p = ExportPath THEN RetainImport
                               ELSE Absent]
    /\ \E t \in CreationReadings : data = LoadMemory(disk["mem"], t)
    /\ call = [op |-> "load", path |-> "mem"]
    /\ ret = data
    /\ ops = 0
    /\ faults = 0
    /\ ReplIdle

NextRetain ==
    \/ \E u \in UserTexts, a \in ContextReplies, io \in {"ok", "open_fails"} :
          ops < MaxRetainOps
          /\ DoAddConversation([sec |-> 3000 + ops, us |-> 0], u, a, None, io)
    \/ ops < MaxRetainOps /\ DoImportMemory("ok")
    \/ \E t \in CreationReadings, io \in {"ok", "open_fails"} :
          ops < MaxRetainOps /\ DoClearMemory(t, io)

SpecRetain == InitRetain /\ [][NextRetain]_vars

(* The mutating calls of the Memory Store, the context accessors among them *)

ContextKeys == {"k", "j"}

\* Values a caller stores in the context map: a string and a tuple
ContextValues == {PyStr(<< "v" >>), PyTuple(<< "a", "b" >>)}

DoSetContextValue(key, value, io) ==
    /\ Environment(io, memory_file)
    /\ LET r == SetContextValue(data, disk, memory_file, key, value, io)
       IN  /\ data' = r.data
           /\ disk' = r.disk
           /\ ret' = r.ret
    /\ call' = [op |-> "set_context", key |-> key, value |-> value, io |-> io]
    /\ ops' = ops + 1
    /\ UNCHANGED <<memory_file, replVars>>

DoGetContextValue(key) ==
    /\ ret' = GetContextValue(data, key, None)
    /\ call' = [op |-> "get_context_value", key |-> key]
    /\ ops' = ops + 1
    /\ UNCHANGED <<memory_file, data, disk, faults, replVars>>

DoRemoveContextValue(key, io) ==
    /\ Environment(io, memory_file)
    /\ LET r == RemoveContextValue(data, disk, memory_file, key, io)
       IN  /\ data' = r.data
           /\ disk' = r.disk
           /\ ret' = r.ret
    /\ call' = [op |-> "remove_context", key |-> key, io |-> io,
                existed |-> IsRecord(data["context"]) /\ key \in DOMAIN data["context"]]
    /\ ops' = ops + 1
    /\ UNCHANGED <<memory_file, replVars>>

PersistIo == {"ok", "open_fails"}

NextPersist ==
    \/ \E t \in CreationReadings : ops < MaxOps /\ Open(memory_file, t)
    \/ \E t \in CreationReadings, u \in UserTexts, a \in AssistantTexts, io \in PersistIo :
          ops < MaxOps /\ DoAddConversation(t, u, a, None, io)
    \/ \E t \in CreationReadings, io \in PersistIo : ops < MaxOps /\ DoClearMemory(t, io)
    \/ \E io \in PersistIo : ops < MaxOps /\ DoImportMemory(io)
    \/ \E k \in ContextKeys, v \in ContextValues, io \in PersistIo :
          ops < MaxOps /\ DoSetContextValue(k, v, io)
    \/ \E k \in ContextKeys : ops < MaxOps /\ DoGetContextValue(k)
    \/ \E k \in ContextKeys, io \in PersistIo : ops < MaxOps /\ DoRemoveContextValue(k, io)

SpecPersist == Init /\ [][NextPersist]_vars

(* The operations of a store opened on a file of any content *)

\* Memory files that are JSON of another shape than the store writes: a
\* context that is a list, and a record without its texts
RobustFiles ==
    InitFiles
    \cup { JsonFile([ty |-> "dict", items |-> [context |-> PyList(<< >>)]]),
           JsonFile([ty |-> "dict",
                     items |-> [conversations |->
                                   PyList(<< [timestamp |-> << "9" >>] >>)]]) }

InitRobust ==
    /\ memory_file = "mem"
    /\ \E f \in RobustFiles, g \in {Absent, WellFormedFile} :
          disk = [p \in Paths |-> IF p = "mem" THEN f
                                  ELSE IF p = ExportPath THEN g ELSE Absent]
    /\ \E t \in CreationReadings : data = LoadMemory(disk["mem"], t)
    /\ call = [op |-> "load", path |-> "mem"]
    /\ ret = data
    /\ ops = 0
    /\ faults = 0
    /\ ReplIdle

DoGetConversationStats ==
    /\ ret' = GetConversationStats(data)
    /\ call' = [op |-> "stats"]
    /\ ops' = ops + 1
    /\ UNCHANGED <<memory_file, data, disk, faults, replVars>>

NextRobust ==
    \/ \E n \in {1, 5} : ops < MaxOps /\ DoGetContextString(n)
    \/ ops < MaxOps /\ DoGetConversationStats
    \/ \E k \in ContextKeys : ops < MaxOps /\ DoGetContextValue(k)
    \/ \E t \in CreationReadings, u \in UserTexts, a \in AssistantTexts, io \in PersistIo :
          ops < MaxOps /\ DoAddConversation(t, u, a, None, io)
    \/ \E io \in PersistIo : ops < MaxOps /\ DoImportMemory(io)
    \/ \E k \in ContextKeys, v \in ContextValues, io \in PersistIo :
          ops < MaxOps /\ DoSetContextValue(k, v, io)
    \/ \E k \in ContextKeys, io \in PersistIo : ops < MaxOps /\ DoRemoveContextValue(k, io)

SpecRobust == InitRobust /\ [][NextRobust]_vars

-----------------------------------------------------------------------------
(* Claims about the Memory Store *)

\* The last Min(n, Len(convs)) records, none when n <= 0
LastRecords(convs, n) ==
    IF n <= 0 THEN << >>
    ELSE SubSeq(convs, Len(convs) - Min(n, Len(convs)) + 1, Len(convs))

\* C2: get_recent_conversations(n) on a store of k records returns the last
\* min(n, k) records in chronological order when n >= 1, and the empty
\* sequence when n <= 0.
C2_RecentAsClaimed ==
    (call.op = "get_recent" /\ IsListStore(data))
        => ret = LastRecords(Conversations(data), call.n)

\* C3: save_memory treats the backup as best effort: it writes the document
\* and returns True whenever the write itself succeeds, also when the copy to
\* the .backup file failed, and returns False only when the write failed.
C3_SaveAsClaimed ==
    call.op = "save"
        => /\ ret = (call.io \notin {"open_fails", "dump_fails"})
           /\ ret = TRUE => disk[memory_file] = JsonDump(data)

\* A memory document of the shape load_memory expects
IsWellFormedFile(content) ==
    /\ content.kind = "json"
    /\ content.value.ty = "dict"
    /\ {"conversations", "context", "metadata"} \subseteq DOMAIN content.value.items
    /\ content.value.items["conversations"].ty = "list"

IsEmptyMemory(d) ==
    /\ DOMAIN d = {"conversations", "context", "metadata"}
    /\ d["conversations"].ty = "list"
    /\ d["conversations"].items = << >>
    /\ DOMAIN d["context"] = {}
    /\ DOMAIN d["metadata"] = {"created_at", "version"}

\* C6: load_memory returns a freshly initialized empty document whenever the
\* file is absent, unreadable, not JSON, or JSON that is no well-formed
\* memory document.
C6_LoadAsClaimed ==
    (call.op = "load" /\ ~IsWellFormedFile(disk[call.path]))
        => IsEmptyMemory(ret)

\* The records that match, most recent first
RECURSIVE NewestMatches(_, _)
NewestMatches(convs, keyword_lower) ==
    IF convs = << >> THEN << >>
    ELSE (IF Matches(convs[Len(convs)], keyword_lower)
          THEN << convs[Len(convs)] >> ELSE << >>)
         \o NewestMatches(SubSeq(convs, 1, Len(convs) - 1), keyword_lower)

HasTexts(d) ==
    \A i \in 1..Len(Conversations(d)) :
        {"user", "assistant"} \subseteq DOMAIN Conversations(d)[i]

\* C7: search_conversations(keyword, limit) returns the matching records,
\* most recent first, all of them when fewer than limit match and never more
\* than limit, for every limit (0 included).
C7_SearchAsClaimed ==
    (call.op = "search" /\ IsListStore(data) /\ HasTexts(data))
        => LET all == NewestMatches(Conversations(data), Lower(call.keyword))
           IN  ret = SubSeq(all, 1, Min(Len(all), Max(call.limit, 0)))

\* The position of the first record with this key in existing + imported
FirstIndex(convs, key) ==
    CHOOSE i \in 1..Len(convs) :
        /\ DedupKey(convs[i]) = key
        /\ \A j \in 1..(i - 1) : DedupKey(convs[j]) # key

\* C5: a successful import_memory leaves a list that (a) holds every
\* (timestamp, user, assistant) triple of the current or the imported
\* document exactly once and no other record, (b) keeps the current store's
\* record of a triple found in both, (c) is sorted by timestamp as strings,
\* ties in current-then-imported order, (d) has ids 1..N in list order; and
\* the merged document is the content of the memory file.
C5_ImportMerges ==
    (call.op = "import" /\ ret = TRUE)
        => LET source == call.before["conversations"].items
                         \o call.file.value.items["conversations"].items
               merged == Conversations(data)
               N      == Len(merged)
           IN  /\ IsListStore(data)
               /\ {DedupKey(merged[i]) : i \in 1..N}
                    = {DedupKey(source[i]) : i \in 1..Len(source)}
               /\ \A i, j \in 1..N : i # j => DedupKey(merged[i]) # DedupKey(merged[j])
               /\ \A i \in 1..N :
                    DictSet(merged[i], "id", 0)
                      = DictSet(source[FirstIndex(source, DedupKey(merged[i]))], "id", 0)
               /\ \A i, j \in 1..N : i < j =>
                    /\ StrLeq(SortKey(merged[i]), SortKey(merged[j]))
                    /\ SortKey(merged[i]) = SortKey(merged[j])
                         => FirstIndex(source, DedupKey(merged[i]))
                              < FirstIndex(source, DedupKey(merged[j]))
               /\ \A i \in 1..N : merged[i]["id"] = i
               /\ disk[memory_file] = JsonDump(data)

\* A successful import into a non-empty store, with a triple found in both
\* documents and two records of one timestamp
C5_Witness ==
    /\ call.op = "import" /\ ret = TRUE
    /\ Len(call.before["conversations"].items) >= 2
    /\ \E i \in 1..Len(call.before["conversations"].items),
          j \in 1..Len(call.file.value.items["conversations"].items) :
          /\ DedupKey(call.before["conversations"].items[i])
               = DedupKey(call.file.value.items["conversations"].items[j])
          /\ Get(call.before["conversations"].items[i], "metadata", None)
               # Get(call.file.value.items["conversations"].items[j], "metadata", None)
    /\ \E i, j \in 1..Len(Conversations(data)) :
          /\ i # j
          /\ SortKey(Conversations(data)[i]) = SortKey(Conversations(data)[j])
    /\ Len(Conversations(data)) >= 4

\* C1: from an empty store, after any number of add_conversation calls the
\* store holds min(calls, 1000) records, which are the most recent ones in
\* insertion order, with ids 1..N in that order.
C1_CapKeepsNewest ==
    LET convs == Conversations(data)
        N     == Len(convs)
    IN  /\ N = Min(ops, MaxConversations)
        /\ \A i \in 1..N :
              /\ convs[i]["id"] = i
              /\ convs[i]["timestamp"] = IsoFormat([sec |-> ops - N + i, us |-> 0])
              /\ convs[i]["user"] = CapText(ops - N + i)

\* More calls than the cap: the oldest records are gone
C1_Witness ==
    /\ ops = MaxConversations + 2
    /\ Len(Conversations(data)) = MaxConversations
    /\ Conversations(data)[1]["timestamp"] = IsoFormat([sec |-> 3, us |-> 0])

Triples(convs) == {DedupKey(convs[i]) : i \in 1..Len(convs)}

\* C4: export_memory writes the document as it is, and import_memory of that
\* file into a new empty store gives a store with the same (timestamp, user,
\* assistant) triples, ordered by timestamp, with ids 1..N in that order; both
\* return True (when the environment lets their writes succeed).
C4_RoundTrip ==
    /\ (call.op = "export" /\ call.io = "ok")
          => /\ ret = TRUE
             /\ disk[ExportPath] = JsonDump(data)
    /\ (call.op = "import" /\ call.io = "ok" /\ IsEmptyMemory(call.before)
          /\ call.file.kind = "json")
          => LET exported == call.file.value.items["conversations"].items
                 convs    == Conversations(data)
             IN  /\ ret = TRUE
                 /\ Triples(convs) = Triples(exported)
                 /\ \A i, j \in 1..Len(convs) : i < j =>
                       StrLeq(convs[i]["timestamp"], convs[j]["timestamp"])
                 /\ \A i \in 1..Len(convs) : convs[i]["id"] = i

\* The export of a store whose records are not in timestamp order (the clock
\* was set back), imported into a new store
C4_Witness ==
    /\ call.op = "import" /\ ret = TRUE /\ IsEmptyMemory(call.before)
    /\ LET exported == call.file.value.items["conversations"].items
       IN  /\ Len(exported) >= 2
           /\ StrLess(exported[2]["timestamp"], exported[1]["timestamp"])
    /\ Len(Conversations(data)) >= 2

-----------------------------------------------------------------------------
(* Claims about the REPL *)

\* The store after the iteration is the store before it with one more record
OneRecordAppended ==
    LET before == Conversations(event.before)
        convs  == Conversations(data)
    IN  /\ Len(convs) = Len(before) + 1
        /\ SubSeq(convs, 1, Len(before)) = before
        /\ convs[Len(convs)]["user"] = event.line

\* C8: in a REPL with memory enabled every executed tool invocation and
\* every chat exchange appends exactly one record to the store, the record
\* of a tool invocation with the tool name in its metadata; with memory
\* disabled no record is ever appended.
C8_EveryExchangeRecorded ==
    /\ (event.kind = "line" /\ use_memory /\ IsListStore(event.before) /\ event.called)
          => /\ OneRecordAppended
             /\ Conversations(data)[Len(Conversations(data))]["metadata"]
                  = [type |-> "tool_usage", tool |-> ToolName(event.command_type)]
    /\ (event.kind = "line" /\ use_memory /\ IsListStore(event.before)
          /\ event.command_type = "chat")
          => OneRecordAppended
    /\ ~use_memory
          => /\ data = None
             /\ disk["mem"] = WellFormedFile

\* C9: the loop leaves the running state only in an iteration that executed
\* /exit or /quit or read end-of-input: after no other builtin, tool command,
\* chat message, unknown command, interrupt or exception is the REPL stopped
\* or its running flag cleared.
C9_StopsOnlyOnExitOrEof ==
    /\ pc = "stopped"
          => \/ event.kind = "eof"
             \/ event.kind = "line" /\ event.command_type \in {"exit", "quit"}
    /\ running = FALSE
          => /\ pc = "stopped"
             /\ event.kind = "line" /\ event.command_type \in {"exit", "quit"}
    /\ (pc = "running" /\ event.kind \in {"line", "interrupt", "prompt_error", "empty"})
          => running = TRUE

\* The loop went on after an interrupt or an empty line and after a tool
\* command, and stopped on /QUIT
C9_Witness ==
    /\ pc = "stopped"
    /\ event.kind = "line" /\ event.command_type = "quit"
    /\ command_count >= 2
    /\ reads > command_count
    /\ Len(tool_history) >= 1

\* C10: the farewell printed on end-of-input reports the session command
\* count and, with memory enabled, the total of stored conversations, as the
\* farewell of the exit command does.
C10_EofFarewellReports ==
    (pc = "stopped" /\ event.kind = "eof")
        => /\ printed.msg = "goodbye"
           /\ "command_count" \in DOMAIN printed.shows
           /\ printed.shows["command_count"] = command_count
           /\ use_memory => "total" \in DOMAIN printed.shows

\* The line without the spaces around it: from its first to its last
\* character that is not a space
Trimmed(line) ==
    LET inked == {i \in 1..Len(line) : line[i] # " "}
    IN  IF inked = {} THEN << >>
        ELSE SubSeq(line, CHOOSE i \in inked : \A j \in inked : i <= j,
                          CHOOSE i \in inked : \A j \in inked : j <= i)

\* The position of the first space of s, Len(s) + 1 when it has none
FirstSpace(s) ==
    CHOOSE i \in 1..(Len(s) + 1) :
        /\ i <= Len(s) => s[i] = " "
        /\ \A j \in 1..(i - 1) : s[j] # " "

\* The text of s before its first space, and what is behind that space
NameOf(s) == SubSeq(s, 1, FirstSpace(s) - 1)
RemainderOf(s) ==
    IF FirstSpace(s) > Len(s) THEN None ELSE Some(SubSeq(s, FirstSpace(s) + 1, Len(s)))

\* C11: the classification of a line depends only on the trimmed line: empty
\* gives empty; a trimmed line starting with "/" whose lower-cased text up to
\* the first space names a builtin gives that builtin, with the remainder as
\* its argument and no argument when there is no remainder; one starting with
\* "!" whose name is in the alias table gives the tool of the table with the
\* remainder as its argument; every other line gives chat with the whole
\* trimmed text.
C11_ClassifiesByLeadingCharacter ==
    call.op = "parse" =>
        LET t    == Trimmed(call.line)
            body == SubSeq(t, 2, Len(t))
            name == Lower(NameOf(body))
        IN  /\ ret = ParseCommand(t)
            /\ t = << >> => ret.command_type = "empty"
            /\ (t # << >> /\ t[1] = "/" /\ name \in DOMAIN builtin_commands)
                  => /\ ret.command_type = builtin_commands[name].name
                     /\ ret.args = RemainderOf(body)
            /\ (t # << >> /\ t[1] = "!" /\ name \in DOMAIN tool_mapping)
                  => /\ ret.command_type = tool_mapping[name]
                     /\ ret.args = RemainderOf(body)
            /\ (t # << >> /\ t[1] \notin {"/", "!"})
                  => ret = [command_type |-> "chat", args |-> Some(t)]

\* " !MV a b " gives the tool move with the argument "a b", and "/ExIT"
\* the builtin exit with no argument
C11_Witness ==
    /\ call.op = "parse"
    /\ \/ /\ call.line = << " ", "!", "M", "V", " ", "a", " ", "b", " " >>
          /\ ret = [command_type |-> "tool_move", args |-> Some(<< "a", " ", "b" >>)]
       \/ /\ call.line = << "/", "E", "x", "I", "T" >>
          /\ ret = [command_type |-> "exit", args |-> None]

\* C12: the usage history is the last min(k, 100) of the k tool calls made
\* since construction or the last clear, one entry per call and in call
\* order, whether the call succeeded or returned an error report
C12_HistoryIsLastCalls ==
    LET k == Len(tool_calls)
        m == Min(k, 100)
    IN  /\ Len(tool_history) = m
        /\ Len(tool_history) <= 100
        /\ \A i \in 1..m :
              /\ tool_history[i].tool = tool_calls[k - m + i].op
              /\ tool_history[i].timestamp = IsoFormat(tool_calls[k - m + i].t)

\* More than 100 calls since the last clear, the last one an error report
C12_Witness ==
    /\ Len(tool_calls) > 100
    /\ Len(tool_calls) < ops
    /\ call.op = "read_file" /\ ret.status = "not_found"
    /\ tool_history[100].tool = "read_file"

\* C13: delete_file refuses a directory without force and leaves it and its
\* contents, removes the directory tree with force, removes a regular file
\* whatever force is, and reports a missing path and changes nothing (the
\* calls the operating system permits)
C13_DeleteAsClaimed ==
    (call.op = "delete_file" /\ call.io = "ok") =>
        LET before == call.before
            p      == ParsePath(call.filepath)
            under  == {q \in DOMAIN before : Len(q) >= Len(p) /\ SubSeq(q, 1, Len(p)) = p}
            Kept(gone) == /\ DOMAIN fs = (DOMAIN before) \ gone
                          /\ \A q \in DOMAIN fs : fs[q] = before[q]
        IN  /\ (p \notin DOMAIN before)
                => ret.status = "not_found" /\ fs = before
            /\ (p \in DOMAIN before /\ before[p].kind = "dir" /\ ~call.force)
                => ret.status = "is_directory" /\ fs = before
            /\ (p \in DOMAIN before /\ before[p].kind = "dir" /\ call.force)
                => ret.status = "ok_directory" /\ Kept(under)
            /\ (p \in DOMAIN before /\ before[p].kind = "file")
                => ret.status = "ok_file" /\ Kept({p})

\* A directory with files below it was deleted with force
C13_Witness ==
    /\ call.op = "delete_file" /\ call.io = "ok" /\ call.force
    /\ call.filepath = PathD
    /\ << NameD, NameE, NameA >> \in DOMAIN call.before
    /\ ret.status = "ok_directory"
    /\ << NameD >> \notin DOMAIN fs

\* The entries find_files is to report below the directory p: those whose
\* name matches and that are neither hidden nor below a hidden directory
Matching(tree, p, pattern) ==
    {q \in DOMAIN tree :
        /\ Len(q) > Len(p) /\ SubSeq(q, 1, Len(p)) = p
        /\ \A i \in (Len(p) + 1)..Len(q) : Head(q[i]) # "."
        /\ Fnmatch(q[Len(q)], pattern)}

\* C14: find_files returns min(m, max_results) relative paths of the m
\* matching entries that are not hidden, says that the cap was reached
\* whenever m > max_results, and returns a not-found report when m = 0
C14_FindAsClaimed ==
    (call.op = "find_files" /\ ParsePath(call.path) \in DOMAIN fs) =>
        LET p == ParsePath(call.path)
            M == {SubSeq(q, Len(p) + 1, Len(q)) : q \in Matching(fs, p, call.pattern)}
            m == Cardinality(M)
        IN  /\ m = 0 => ret.status = "no_match"
            /\ m > 0 =>
                 /\ ret.status = "ok"
                 /\ Len(ret.results) = Min(m, call.max_results)
                 /\ \A i \in 1..Len(ret.results) : ret.results[i] \in M
                 /\ \A i, j \in 1..Len(ret.results) :
                       ret.results[i] = ret.results[j] => i = j
                 /\ m > call.max_results => ret.capped

\* The same for the calls with max_results of 1 or more
C14_FindWithPositiveCap ==
    (call.op = "find_files" /\ call.max_results >= 1) => C14_FindAsClaimed

\* The number of lines of a text
LineCount(text) ==
    Cardinality({i \in 1..Len(text) : text[i] = "\n"})
    + (IF text # << >> /\ text[Len(text)] # "\n" THEN 1 ELSE 0)

\* What C15 says of a call of read_file with max_lines given as n, on a
\* file: at most n lines, and the marker when the file has more
ReadsLines(n) ==
    LET text == fs[ParsePath(call.filepath)].text
    IN  /\ ret.status = "ok"
        /\ "lines" \in DOMAIN ret
        /\ Len(ret.lines) <= n
        /\ LineCount(text) > n => ret.more

\* C15: read_file reports a missing path as not found and a directory as
\* not a file; with max_lines given, 0 included, it returns at most
\* max_lines lines and the truncation marker when the file has more; without
\* max_lines it returns at most the first 5000 characters and the marker
\* when the file is longer (the calls the operating system permits)
C15_ReadAsClaimed ==
    (call.op = "read_file" /\ call.io = "ok") =>
        LET p == ParsePath(call.filepath)
        IN  /\ p \notin DOMAIN fs => ret.status = "not_found"
            /\ (p \in DOMAIN fs /\ fs[p].kind = "dir") => ret.status = "not_a_file"
            /\ (p \in DOMAIN fs /\ fs[p].kind = "file" /\ call.max_lines # None)
                 => ReadsLines(call.max_lines[1])
            /\ (p \in DOMAIN fs /\ fs[p].kind = "file" /\ call.max_lines = None)
                 => /\ ret.status = "ok"
                    /\ "text" \in DOMAIN ret
                    /\ Len(ret.text) <= 5000
                    /\ ret.text = SubSeq(fs[p].text, 1, Len(ret.text))
                    /\ Len(fs[p].text) <= 5000 => ret.text = fs[p].text /\ ~ret.more
                    /\ Len(fs[p].text) > 5000 => Len(ret.text) = 5000 /\ ret.more

\* The same for the calls whose max_lines is not 0
C15_ReadWithNonzeroLines ==
    (call.op = "read_file" /\ call.max_lines # Some(0)) => C15_ReadAsClaimed

\* C16: chat returns a text reply and never raises, whatever the backend
\* does, an agent whose backend could not be constructed included
C16_ChatNeverRaises ==
    call.op = "chat" => (~IsRaised(ret) /\ "reply" \in DOMAIN ret)

\* The same for the agents whose backend was constructed, on a store whose
\* conversations are a list of records
C16_ChatWithBackend ==
    (call.op = "chat" /\ llm_client = "ok"
        /\ (use_memory => ~IsRaised(GetContextString(call.before, 3))))
        => (~IsRaised(ret) /\ "reply" \in DOMAIN ret)

\* chat on an agent without a backend, whose store is in order
C16_RaisesWithoutBackend ==
    (call.op = "chat" /\ llm_client = "unset" /\ ~use_memory) => IsRaised(ret)

\* C17: a one-shot subcommand exits with 0 exactly when its operation
\* succeeded, and with 1 whenever the operation reported an error
C17_ExitCodeTellsSuccess ==
    (call.op = "main") =>
        /\ ret.code \in {0, 1}
        /\ ret.code = 0 <=> ~ret.failed

\* A run exits with 1 exactly when an exception left the operation
C17_ExitCodeTellsException ==
    (call.op = "main") => (ret.code = 1 <=> IsRaised(ret.report))

\* The lines of a text: what "\n" separates
RECURSIVE TextLines(_, _)
TextLines(chars, line) ==
    IF chars = << >> THEN << line >>
    ELSE IF Head(chars) = "\n" THEN << line >> \o TextLines(Tail(chars), << >>)
    ELSE TextLines(Tail(chars), Append(line, Head(chars)))

\* The store holds records with a user and an assistant text
HoldsRecords(d) ==
    /\ IsListStore(d)
    /\ \A i \in 1..Len(Conversations(d)) :
          {"user", "assistant"} \subseteq DOMAIN Conversations(d)[i]

\* What C18 says of get_context_string(n) on the store
ContextAsClaimed ==
    LET convs == Conversations(data)
        k     == Len(convs)
        m     == Min(call.n, k)
        lines == TextLines(ret.text, << >>)
    IN  /\ ~IsRaised(ret)
        /\ k = 0 => ret.text = << >>
        /\ m = 0 => ret.text = << >>
        /\ m > 0 =>
             /\ Len(lines) = 2 * m
             /\ \A i \in 1..m :
                   /\ lines[2 * i - 1] = UserLabel \o convs[k - m + i]["user"]
                   /\ lines[2 * i] = AssistantLabel \o convs[k - m + i]["assistant"]

\* C18: get_context_string(n) on a store of k records returns the last
\* min(n, k) records, oldest first, as 2 * min(n, k) lines joined by "\n", a
\* user line and an assistant line for each record, and the empty string
\* when k = 0
C18_ContextAsClaimed ==
    (call.op = "get_context" /\ HoldsRecords(data)) => ContextAsClaimed

\* No text of the store has a line break
OneLineTexts(d) ==
    \A i \in 1..Len(Conversations(d)) :
        /\ \A j \in 1..Len(Conversations(d)[i]["user"]) :
              Conversations(d)[i]["user"][j] # "\n"
        /\ \A j \in 1..Len(Conversations(d)[i]["assistant"]) :
              Conversations(d)[i]["assistant"][j] # "\n"

\* The same for n >= 1 on stores whose texts have one line each
C18_ContextOfOneLineTexts ==
    (call.op = "get_context" /\ HoldsRecords(data) /\ call.n >= 1
        /\ OneLineTexts(data)) => ContextAsClaimed

\* The same for n >= 1, with a user part and an assistant part for a record
\* in place of a line each
C18_ContextParts ==
    (call.op = "get_context" /\ HoldsRecords(data) /\ call.n >= 1) =>
        LET convs == Conversations(data)
            k     == Len(convs)
            m     == Min(call.n, k)
        IN  /\ ~IsRaised(ret)
            /\ ret.text = JoinLines([j \in 1..(2 * m) |->
                              IF j % 2 = 1
                              THEN UserLabel \o convs[k - m + (j + 1) \div 2]["user"]
                              ELSE AssistantLabel \o convs[k - m + j \div 2]["assistant"]])

\* C19: the store never holds more than 1000 records, whatever sequence of
\* add_conversation, import_memory and clear_memory is called
C19_CapUnderEveryOperation ==
    IsListStore(data) => Len(Conversations(data)) <= 1000

\* add_conversation and clear_memory leave at most 1000 records, whatever
\* the store held before
C19_CapAfterAddAndClear ==
    (call.op \in {"add", "clear"} /\ IsListStore(data))
        => Len(Conversations(data)) <= 1000

\* The import files the claim lists: missing, not decodable, no mapping, no
\* conversations entry, or a conversations entry that is no list of records
Rejected(file) ==
    \/ file.kind \in {"absent", "garbage"}
    \/ /\ file.kind = "json"
       /\ \/ file.value.ty # "dict"
          \/ "conversations" \notin DOMAIN file.value.items
          \/ file.value.items["conversations"].ty # "list"
          \/ \E i \in 1..Len(file.value.items["conversations"].items) :
                ~IsRecord(file.value.items["conversations"].items[i])

\* C20: import_memory returns False, without raising, when the import file
\* is missing, is not decodable JSON, is not a mapping, lacks a conversations
\* entry, or has a conversations entry that is not a list of records; the
\* document in memory and every file are then as they were before the call.
C20_RejectedImportChangesNothing ==
    [][(call'.op = "import" /\ ops' = ops + 1 /\ Rejected(disk[ExportPath]))
          => (ret' = FALSE /\ data' = data /\ disk' = disk)]_vars

\* An import into a non-empty store, saved in its file, of a list whose
\* second element is no record: False is returned
C20_Witness ==
    /\ call.op = "import" /\ ret = FALSE
    /\ call.file.kind = "json" /\ call.file.value.ty = "dict"
    /\ "conversations" \in DOMAIN call.file.value.items
    /\ call.file.value.items["conversations"].ty = "list"
    /\ Len(call.file.value.items["conversations"].items) = 2
    /\ IsRecord(call.file.value.items["conversations"].items[1])
    /\ ~IsRecord(call.file.value.items["conversations"].items[2])
    /\ IsListStore(call.before) /\ Len(Conversations(call.before)) >= 1
    /\ data = call.before
    /\ disk[memory_file] = JsonDump(data)

\* C21: an unrecognized name after "/" classifies as unknown_builtin carrying
\* that name, and an unrecognized name after "!" classifies as unknown_tool
\* carrying that name, not the argument text that follows it, also when no
\* argument follows.
C21_UnknownCarriesName ==
    call.op = "parse" =>
        LET t    == Trimmed(call.line)
            body == SubSeq(t, 2, Len(t))
            name == Lower(NameOf(body))
        IN  /\ (t # << >> /\ t[1] = "/" /\ name \notin DOMAIN builtin_commands)
                  => ret = [command_type |-> "unknown_builtin", args |-> Some(name)]
            /\ (t # << >> /\ t[1] = "!" /\ name \notin DOMAIN tool_mapping)
                  => ret = [command_type |-> "unknown_tool", args |-> Some(name)]

\* What the code does: the unknown builtin carries its lower-cased name, the
\* unknown tool the text after the name, or None when there is none
C21_UnknownToolCarriesArgument ==
    call.op = "parse" =>
        LET t    == Trimmed(call.line)
            body == SubSeq(t, 2, Len(t))
            name == Lower(NameOf(body))
        IN  /\ (t # << >> /\ t[1] = "/" /\ name \notin DOMAIN builtin_commands)
                  => ret = [command_type |-> "unknown_builtin", args |-> Some(name)]
            /\ (t # << >> /\ t[1] = "!" /\ name \notin DOMAIN tool_mapping)
                  => ret = [command_type |-> "unknown_tool", args |-> RemainderOf(body)]

\* C22: once /exit or /quit has been executed, or end-of-input has been
\* read, the REPL is stopped in that same iteration, and stopped is
\* absorbing: no step is taken from it, so no line is read, classified or
\* executed and no record is appended after it.
C22_StopsAtOnceAndForGood ==
    /\ []((\/ event.kind = "eof"
           \/ event.kind = "line" /\ event.command_type \in {"exit", "quit"})
             => pc = "stopped")
    /\ [][pc # "stopped"]_vars

\* The loop stopped on end-of-input or on /exit after a command that
\* appended a record, with lines left to read
C22_Witness ==
    /\ pc = "stopped"
    /\ event.kind = "eof" \/ (event.kind = "line" /\ event.command_type = "exit")
    /\ command_count >= 1
    /\ use_memory /\ IsListStore(data) /\ Len(Conversations(data)) >= 2
    /\ reads < MaxLines

\* A mutating call that returned True
Persisted ==
    /\ \/ call.op \in {"add", "clear", "import", "set_context"}
       \/ call.op = "remove_context" /\ call.existed
    /\ ret = TRUE

\* The values of the context map are strings, lists and maps, as JSON has them
JsonNative(d) ==
    \A k \in DOMAIN d["context"] : d["context"][k].ty # "tuple"

\* C23: after every mutating call that returns True (add_conversation,
\* clear_memory, import_memory, set_context_value, remove_context_value of an
\* existing key) the memory file decodes to a document equal to the one in
\* memory: a store opened on the path at that point holds the same document.
C23_FileEqualsMemory ==
    Persisted => \A t \in CreationReadings : LoadMemory(disk[memory_file], t) = data

\* The same for documents whose context values are strings, lists and maps
C23_FileEqualsJsonMemory ==
    (Persisted /\ IsRecord(data["context"]) /\ JsonNative(data))
        => \A t \in CreationReadings : LoadMemory(disk[memory_file], t) = data

\* What the file holds in every case: the document as json.load reads it back
C23_FileIsDumpOfMemory ==
    Persisted => disk[memory_file] = JsonDump(data)

\* A failed save left the memory file as it was or half written, and a file
\* that was the text of the document is not the text of the changed one
FileNotUpdated ==
    /\ disk'[memory_file] \in {disk[memory_file], Garbage}
    /\ (disk[memory_file] = JsonDump(data) /\ data' # data)
          => disk'[memory_file] # JsonDump(data')

\* C24: a mutating call whose save fails returns False and takes nothing
\* back: after a failed add_conversation the new record is the last record of
\* the document in memory, after a failed clear_memory the document is the
\* empty one, after a failed save of import_memory it is the merged one; the
\* file is left as it was or half written, so that a file that was the text
\* of the document is not the text of the changed one, and the next
\* successful save writes the document as it is.
C24_FailedSaveKeepsChange ==
    [][/\ (call'.op = "add" /\ ops' = ops + 1 /\ ret' = FALSE /\ IsListStore(data))
            => /\ Conversations(data') # << >>
               /\ SubSeq(Conversations(data'), 1, Len(Conversations(data)))
                    = Conversations(data)
               /\ Len(Conversations(data')) = Len(Conversations(data)) + 1
               /\ FileNotUpdated
       /\ (call'.op = "clear" /\ ops' = ops + 1 /\ ret' = FALSE)
            => /\ IsEmptyMemory(data')
               /\ FileNotUpdated
       /\ (call'.op = "import" /\ ops' = ops + 1 /\ ret' = FALSE
             /\ disk[ExportPath].kind = "json" /\ ~Rejected(disk[ExportPath])
             /\ IsListStore(data))
            => /\ Triples(Conversations(data'))
                    = Triples(Conversations(data))
                        \cup Triples(disk[ExportPath].value.items["conversations"].items)
               /\ FileNotUpdated
       /\ (call'.op = "save" /\ ops' = ops + 1 /\ ret' = TRUE)
            => /\ data' = data
               /\ disk'[memory_file] = JsonDump(data)
      ]_vars

\* A failed add_conversation on a store that held a record and whose file was
\* written before: one record more in memory than in the file
C24_Witness ==
    /\ call.op = "add" /\ ret = FALSE /\ call.io \in {"open_fails", "backup_fails"}
    /\ IsListStore(data) /\ Len(Conversations(data)) >= 2
    /\ disk[memory_file].kind = "json"
    /\ disk[memory_file].value.items
         = [data EXCEPT !["conversations"] =
               PyList(SubSeq(Conversations(data), 1, Len(Conversations(data)) - 1))]

\* C25: on a store opened on a file of any content, get_context_string,
\* get_conversation_stats and get_context_value return a result and
\* add_conversation, import_memory, set_context_value and
\* remove_context_value return a boolean: none of them raises.
C25_NoOperationRaises ==
    /\ call.op \in {"get_context", "stats", "get_context_value"} => ~IsRaised(ret)
    /\ call.op \in {"add", "import", "set_context", "remove_context"}
          => ret \in BOOLEAN

\* The calls with an except clause return a boolean on every store
C25_MutatingCallsReturnBoolean ==
    call.op \in {"add", "import", "set_context", "remove_context"} => ret \in BOOLEAN

\* The calls without one return a result on a store whose conversations are a
\* list of records with their texts and timestamps and whose context is a map
C25_QueriesOfWellShapedStore ==
    (/\ call.op \in {"get_context", "stats", "get_context_value"}
     /\ IsListStore(data) /\ HasTexts(data) /\ IsRecord(data["context"])
     /\ \A i \in 1..Len(Conversations(data)) : "timestamp" \in DOMAIN Conversations(data)[i])
        => ~IsRaised(ret)

\* The step is a mutating call that saved the document and returned True
SavingStep ==
    /\ ops' = ops + 1
    /\ \/ call'.op \in {"save", "add", "clear", "import", "set_context"}
       \/ call'.op = "remove_context" /\ call'.existed
    /\ ret' = TRUE

\* The last call was a mutating call whose json.dump failed part way
HalfWritten ==
    /\ call.op \in {"save", "add", "clear", "import"}
    /\ call.io = "dump_fails"
    /\ ret = FALSE
    /\ disk[memory_file] = Garbage

\* C26: after every successful save over an existing memory file the .backup
\* file holds what the memory file held before that save, and the backup
\* never holds content that was never persisted: a successful save that
\* follows a save whose write failed part way does not leave the half-written
\* text in the backup.
C26_BackupNeverHalfWritten ==
    [][/\ (SavingStep /\ disk[memory_file].kind # "absent")
            => disk'[BackupOf(memory_file)] = disk[memory_file]
       /\ (HalfWritten /\ SavingStep)
            => disk'[BackupOf(memory_file)] # Garbage
      ]_vars

\* The consequence the claim draws: after two successful mutating calls in a
\* row the backup decodes to the document as it was before the second
C26_BackupDecodesToPrevious ==
    [][(Persisted /\ SavingStep)
         => \A t \in CreationReadings :
               LoadMemory(disk'[BackupOf(memory_file)], t) = data]_vars

\* What holds: a successful save over an existing file leaves in the backup
\* what the file held, after two successful mutating calls in a row that is
\* the JSON text of the document before the second, and the backup changes
\* only to what the memory file holds
C26_BackupIsPreviousFile ==
    [][/\ (SavingStep /\ disk[memory_file].kind # "absent")
            => disk'[BackupOf(memory_file)] = disk[memory_file]
       /\ (Persisted /\ SavingStep)
            => disk'[BackupOf(memory_file)] = JsonDump(data)
       /\ \/ disk'[BackupOf(memory_file)] = disk[BackupOf(memory_file)]
          \/ disk'[BackupOf(memory_file)] = disk[memory_file]
      ]_vars

\* The same consequence for documents whose context values are JSON values
C26_BackupDecodesToJsonPrevious ==
    [][(Persisted /\ SavingStep /\ IsRecord(data["context"]) /\ JsonNative(data))
         => \A t \in CreationReadings :
               LoadMemory(disk'[BackupOf(memory_file)], t) = data]_vars

\* A successful save has copied a half-written memory file to the backup
C26_HalfWrittenBackup ==
    /\ call.op \in {"save", "add", "clear", "import"} /\ ret = TRUE
    /\ disk[BackupOf(memory_file)] = Garbage
    /\ disk[memory_file] = JsonDump(data)

\* Tool commands the REPL rejects: a tool without its argument, a tool whose
\* argument lacks its second part, a name that is no tool
RejectedLines ==
    { << "!", "r", "e", "a", "d" >>,
      << "!", "w", "r", "i", "t", "e", " ", "f" >>,
      << "!", "z", "a", "p", " ", "x" >> }

\* C27: a tool command that is rejected before it reaches the Tool Executor
\* (an unknown tool name, a tool whose argument is missing or ill-formed)
\* leaves the usage history of the tools, the Memory Store, its files and the
\* file system as they were; the command count goes up by one.
C27_RejectedToolCommandChangesNothing ==
    [][(reads' = reads + 1 /\ event'.kind = "line" /\ event'.line \in RejectedLines)
         => /\ tool_history' = tool_history
            /\ tool_calls' = tool_calls
            /\ data' = data
            /\ disk' = disk
            /\ fs' = fs
            /\ ops' = ops
            /\ running' = running /\ pc' = pc
            /\ command_count' = command_count + 1
            /\ printed'.msg \in {"rejected", "unknown_tool"}
      ]_vars

\* A command was rejected in a session with a store, after a tool has run and
\* its exchange has been recorded
C27_Witness ==
    /\ event.kind = "line" /\ event.line \in RejectedLines
    /\ printed.msg \in {"rejected", "unknown_tool"}
    /\ use_memory
    /\ tool_history # << >>
    /\ IsListStore(data) /\ Conversations(data) # << >>
    /\ command_count >= 2

\* The two lines get_context_string writes for a record
Exchange(conv) ==
    UserLabel \o conv["user"] \o << "\n" >> \o AssistantLabel \o conv["assistant"]

\* The text of the last three records of a list, written out record by record
LastThree(convs) ==
    LET n == Len(convs)
    IN  IF n = 0 THEN << >>
        ELSE IF n = 1 THEN Exchange(convs[1])
        ELSE IF n = 2 THEN Exchange(convs[1]) \o << "\n" >> \o Exchange(convs[2])
        ELSE Exchange(convs[n - 2]) \o << "\n" >> \o Exchange(convs[n - 1])
                 \o << "\n" >> \o Exchange(convs[n])

\* The step is a chat message of a session with a store whose backend was asked
ChatStep ==
    /\ reads' = reads + 1
    /\ event'.kind = "line" /\ event'.command_type = "chat"
    /\ use_memory
    /\ event'.context # None

\* C28: for a chat message handled with memory enabled, the context handed
\* to the backend is the text of the at most 3 most recent records of the
\* store as they stood before the message, tool-usage records included, and
\* the exchange is appended only after the reply: the store after the message
\* is the store before it with the new exchange as its last record, and a
\* chat that got no reply appends nothing.
C28_ContextIsBeforeTheMessage ==
    [][/\ ChatStep
            => /\ IsListStore(data)
               /\ event'.context[1] = LastThree(Conversations(data))
               /\ Len(Conversations(data')) = Len(Conversations(data)) + 1
               /\ SubSeq(Conversations(data'), 1, Len(Conversations(data)))
                     = Conversations(data)
               /\ Conversations(data')[Len(Conversations(data'))]["user"] = event'.line
               /\ Conversations(data')[Len(Conversations(data'))]["assistant"] \in Replies
       /\ (reads' = reads + 1 /\ event'.kind = "line" /\ event'.command_type = "chat"
             /\ event'.context = None)
            => data' = data /\ disk' = disk
      ]_vars

\* A chat was answered in a store of four records before it, the last of them
\* the record of a tool command: the context starts at the second record
C28_Witness ==
    /\ event.kind = "line" /\ event.command_type = "chat"
    /\ use_memory /\ event.context # None
    /\ IsListStore(event.before)
    /\ Len(Conversations(event.before)) = 4
    /\ Conversations(event.before)[4]["metadata"] # None
    /\ event.context[1] = LastThree(Conversations(event.before))
    /\ event.context[1] # LastThree(SubSeq(Conversations(event.before), 1, 3))
    /\ Len(Conversations(data)) = 5

====
